---------------------------- MODULE Spec2Model ----------------------------
(***************************************************************************)
(* A model of the sprout boot loader's configuration engine: the context   *)
(* tree and its templating (context.rs), the version comparator            *)
(* (utils/vercmp.rs), the matrix, list and BLS generators, and the entry   *)
(* selection of run() (main.rs).                                           *)
(*                                                                         *)
(* Strings are sequences of one-character strings, so that replace,        *)
(* starts_with, the byte order of String and the character classes of the  *)
(* version comparator are computed and not assumed.                        *)
(***************************************************************************)
EXTENDS Integers, Sequences, FiniteSets, TLC

VARIABLES
    ctxs,       \* the SproutContext nodes that exist, in creation order
    last,       \* the last stamp / finalize call and what it returned
    fin,        \* the finalize call in progress: its loop variables
    va, vb,     \* the two arguments of compare_versions
    ord,        \* Some(what compare_versions returned for them), None before the call
    matrix,     \* MatrixConfiguration.values: key -> array of values
    combos,     \* Some(what build_matrix returned), None before the call
    listing,    \* the valid BLS entries of the directory, in read_dir order
    sorted,     \* Some(what the BLS generator returned), None before the call
    cfg,        \* run(): options, configuration and the resolved entry list
    store,      \* the persistent store (the bootloader interface's variables)
    entries,    \* run(): the entry list with its default marks
    loc,        \* run(): the local variables of the selection
    pc,         \* run(): the position in run()
    selected,   \* run(): index of the entry chosen (0: none yet)
    executed,   \* run(): the actions executed, as <<entry index, action index>>
    own         \* the contexts and the Rc handles of them, with the call last made

vars == <<ctxs, last, fin, va, vb, ord, matrix, combos, listing, sorted,
          cfg, store, entries, loc, pc, selected, executed, own>>

ctxVars == <<ctxs, last, fin>>
verVars == <<va, vb, ord>>
matrixVars == <<matrix, combos>>
blsVars == <<listing, sorted>>
runVars == <<cfg, store, entries, loc, pc, selected, executed>>
ownVars == <<own>>

(***************************************************************************)
(* Bounds of the model.                                                    *)
(***************************************************************************)
MaxCtx == 3         \* context nodes that may exist at once
MaxStrLen == 12     \* a finalize pass that makes a value longer is not followed
MaxVerLen == 2      \* length of the version strings that are enumerated
MaxArrayLen == 2    \* length of the arrays of a matrix
MaxBlsFiles == 3    \* items of a BLS entries directory
MaxDisplays == 2    \* times the menu prints the entry list in one run
MaxOwn == 4         \* contexts that are made in one behaviour of the ownership model
MaxRefs == 2        \* Rc handles of one context that variables hold at once

(***************************************************************************)
(* Strings.                                                                *)
(***************************************************************************)

\* The characters the model uses, in ascending byte order.
AsciiOrder ==
    <<" ", "$", "*", "-", ".", "0", "1", "2", "3", "4", "5", "6", "7", "8", "9",
      "A", "B", "C", "F", "N", "O", "R", "X", "Y", "^", "_",
      "a", "b", "c", "d", "e", "f", "h", "i", "l", "m", "n", "o", "r", "s", "t",
      "u", "v", "x", "y", "z", "~">>

Code(c) == CHOOSE i \in 1..Len(AsciiOrder) : AsciiOrder[i] = c

Range(s) == {s[i] : i \in 1..Len(s)}

\* Ord for String: byte-wise lexicographic, a proper prefix first. -1, 0 or 1.
RECURSIVE StrCmp(_, _)
StrCmp(s, t) ==
    IF s = <<>> THEN (IF t = <<>> THEN 0 ELSE -1)
    ELSE IF t = <<>> THEN 1
    ELSE IF s[1] = t[1] THEN StrCmp(Tail(s), Tail(t))
    ELSE IF Code(s[1]) < Code(t[1]) THEN -1 ELSE 1

starts_with(s, p) == Len(p) <= Len(s) /\ SubSeq(s, 1, Len(p)) = p

ends_with(s, p) ==
    Len(p) <= Len(s) /\ SubSeq(s, Len(s) - Len(p) + 1, Len(s)) = p

\* str::replace: the non-overlapping matches of pat, left to right, each replaced
\* by val; the replacement is not scanned again.
RECURSIVE Replace(_, _, _)
Replace(s, pat, val) ==
    IF Len(s) < Len(pat) THEN s
    ELSE IF SubSeq(s, 1, Len(pat)) = pat
         THEN val \o Replace(SubSeq(s, Len(pat) + 1, Len(s)), pat, val)
         ELSE <<s[1]>> \o Replace(Tail(s), pat, val)

\* The keys of a BTreeMap<String, _> (or the items of a BTreeSet<String>) in
\* iteration order: ascending.
RECURSIVE BTreeOrder(_)
BTreeOrder(S) ==
    IF S = {} THEN <<>>
    ELSE LET m == CHOOSE x \in S : \A y \in S : StrCmp(x, y) <= 0
         IN  <<m>> \o BTreeOrder(S \ {m})

None == <<>>
Some(v) == <<v>>

\* A digit string as a number.
RECURSIVE Decimal(_)
Decimal(s) ==
    IF s = <<>> THEN 0
    ELSE Decimal(SubSeq(s, 1, Len(s) - 1)) * 10 + (Code(s[Len(s)]) - Code("0"))

(***************************************************************************)
(* The context engine (context.rs).                                        *)
(***************************************************************************)
CONTEXT_FINALIZE_ITERATION_LIMIT == 100

\* keys.sort_by_key(|key| Reverse(key.len())): a stable sort, longest first.
RECURSIVE InsertLongestFirst(_, _)
InsertLongestFirst(done, key) ==
    IF done = <<>> THEN <<key>>
    ELSE IF Len(done[1]) >= Len(key)
         THEN <<done[1]>> \o InsertLongestFirst(Tail(done), key)
         ELSE <<key>> \o done

RECURSIVE InsertShortestFirst(_, _)
InsertShortestFirst(done, key) ==
    IF done = <<>> THEN <<key>>
    ELSE IF Len(done[1]) <= Len(key)
         THEN <<done[1]>> \o InsertShortestFirst(Tail(done), key)
         ELSE <<key>> \o done

RECURSIVE SortShortestFirst(_)
SortShortestFirst(keys) ==
    IF keys = <<>> THEN <<>>
    ELSE InsertShortestFirst(SortShortestFirst(SubSeq(keys, 1, Len(keys) - 1)),
                             keys[Len(keys)])

RECURSIVE SortLongestFirst(_)
SortLongestFirst(keys) ==
    IF keys = <<>> THEN <<>>
    ELSE InsertLongestFirst(SortLongestFirst(SubSeq(keys, 1, Len(keys) - 1)),
                            keys[Len(keys)])

\* The loop of stamp_values over the sorted keys.
RECURSIVE StampKeys(_, _, _, _)
StampKeys(values, keys, result, did_change) ==
    IF keys = <<>> THEN [changed |-> did_change, text |-> result]
    ELSE LET key == Head(keys) IN
         IF key = <<>> THEN StampKeys(values, Tail(keys), result, did_change)
         ELSE LET next_result == Replace(result, <<"$">> \o key, values[key])
              IN  StampKeys(values, Tail(keys), next_result,
                            did_change \/ result # next_result)

stamp_values(values, text) ==
    StampKeys(values, SortLongestFirst(BTreeOrder(DOMAIN values)), text, FALSE)

\* The bug of asking the parent first.
RECURSIVE getParentFirst(_, _, _)
getParentFirst(cs, c, key) ==
    LET up == IF cs[c].parent # 0 THEN getParentFirst(cs, cs[c].parent, key)
              ELSE None
    IN  IF up # None THEN up
        ELSE IF key \in DOMAIN cs[c].values THEN Some(cs[c].values[key])
        ELSE None

\* SproutContext::get on node c of the node list cs.
RECURSIVE get(_, _, _)
get(cs, c, key) ==
    IF key \in DOMAIN cs[c].values THEN Some(cs[c].values[key])
    ELSE IF cs[c].parent # 0 THEN get(cs, cs[c].parent, key)
    ELSE None

RECURSIVE all_keys(_, _)
all_keys(cs, c) ==
    BTreeOrder(DOMAIN cs[c].values
               \cup (IF cs[c].parent # 0 THEN Range(all_keys(cs, cs[c].parent))
                     ELSE {}))

unwrap_or_default(o) == IF o = None THEN <<>> ELSE o[1]

all_values(cs, c) ==
    [key \in Range(all_keys(cs, c)) |-> unwrap_or_default(get(cs, c, key))]

stamp(cs, c, text) == stamp_values(all_values(cs, c), text).text

\* One pass of the loop of finalize over current_values, after `done` passes.
\* status is "again" (a value changed: the loop goes on), "ok" (the loop breaks
\* and the values are those of the returned context), "err" (the bail! of the
\* iteration limit) or "beyond" (a value grew past MaxStrLen: the model does
\* not follow the call further).
FinalizeOnePass(current_values, done) ==
    LET iterations == done + 1
        st == [key \in DOMAIN current_values |->
                  stamp_values(current_values, current_values[key])]
        values == [key \in DOMAIN current_values |-> st[key].text]
    IN  IF iterations > CONTEXT_FINALIZE_ITERATION_LIMIT
        THEN [status |-> "err", values |-> current_values, iterations |-> iterations]
        ELSE [status |-> "ok", values |-> values, iterations |-> iterations]

FinalizePassOf(current_values, done) ==
    LET iterations == done + 1
        st == [key \in DOMAIN current_values |->
                  stamp_values(current_values, current_values[key])]
        values == [key \in DOMAIN current_values |-> st[key].text]
    IN  IF iterations > CONTEXT_FINALIZE_ITERATION_LIMIT
        THEN [status |-> "err", values |-> current_values, iterations |-> iterations]
        ELSE IF \E key \in DOMAIN values : Len(values[key]) > MaxStrLen
        THEN [status |-> "beyond", values |-> values, iterations |-> iterations]
        ELSE IF \E key \in DOMAIN st : st[key].changed
        THEN [status |-> "again", values |-> values, iterations |-> iterations]
        ELSE [status |-> "ok", values |-> values, iterations |-> iterations]

\* A node: parent is the index of the parent node (0: none); frozen says the
\* node is behind an Rc; origin names the constructor that made it and src the
\* node it was made from (0: none).
Node(parent, values, origin, src) ==
    [parent |-> parent, values |-> values, frozen |-> FALSE, origin |-> origin,
     src |-> src]

NoCall == [op |-> "none", ctx |-> 0, text |-> <<>>, result |-> <<>>,
           status |-> "none", node |-> 0, passes |-> 0]

NoFin == [active |-> FALSE, ctx |-> 0, current_values |-> <<>>, iterations |-> 0]

\* The keys, values and texts the operations are called with.
K_a == <<"a">>
K_b == <<"b">>
K_ab == <<"a", "b">>
CtxKeys == {K_a}
CtxVals == {<<"1">>, <<"2">>}
CtxMaps == {[key \in {K_a, K_b} |-> IF key = K_a THEN <<"2">> ELSE <<"$", "a">>]}
CtxTexts == {<<"$", "a", "-", "$", "b">>}

Merge(old, new) ==
    [key \in DOMAIN old \cup DOMAIN new |->
        IF key \in DOMAIN new THEN new[key] ELSE old[key]]

New ==
    /\ ~fin.active
    /\ Len(ctxs) < MaxCtx
    /\ ctxs' = Append(ctxs, Node(0, <<>>, "new", 0))
    /\ last' = NoCall
    /\ UNCHANGED fin

Set(c, key, value) ==
    /\ ~fin.active
    /\ ~ctxs[c].frozen
    /\ ctxs' = [ctxs EXCEPT ![c].values = Merge(@, [k \in {key} |-> value])]
    /\ last' = NoCall
    /\ UNCHANGED fin

Insert(c, values) ==
    /\ ~fin.active
    /\ ~ctxs[c].frozen
    /\ ctxs' = [ctxs EXCEPT ![c].values = Merge(@, values)]
    /\ last' = NoCall
    /\ UNCHANGED fin

Freeze(c) ==
    /\ ~fin.active
    /\ ~ctxs[c].frozen
    /\ ctxs' = [ctxs EXCEPT ![c].frozen = TRUE]
    /\ last' = NoCall
    /\ UNCHANGED fin

Fork(c) ==
    /\ ~fin.active
    /\ ctxs[c].frozen
    /\ Len(ctxs) < MaxCtx
    /\ ctxs' = Append(ctxs, Node(c, <<>>, "fork", c))
    /\ last' = NoCall
    /\ UNCHANGED fin

Stamp(c, text) ==
    /\ ~fin.active
    /\ last' = [NoCall EXCEPT !.op = "stamp", !.ctx = c, !.text = text,
                              !.result = stamp(ctxs, c, text)]
    /\ UNCHANGED <<ctxs, fin>>

\* finalize is entered: current_values = self.all_values(), iterations = 0.
FinalizeCall(c) ==
    /\ ~fin.active
    /\ Len(ctxs) < MaxCtx
    /\ fin' = [active |-> TRUE, ctx |-> c, current_values |-> all_values(ctxs, c),
               iterations |-> 0]
    /\ last' = NoCall
    /\ UNCHANGED ctxs

\* One iteration of the loop of finalize, and the return when it is the last.
FinalizePass ==
    /\ fin.active
    /\ LET r == FinalizePassOf(fin.current_values, fin.iterations) IN
       IF r.status = "again"
       THEN /\ fin' = [fin EXCEPT !.current_values = r.values,
                                  !.iterations = r.iterations]
            /\ UNCHANGED <<ctxs, last>>
       ELSE /\ fin' = NoFin
            /\ last' = [NoCall EXCEPT !.op = "finalize", !.ctx = fin.ctx,
                            !.status = r.status, !.passes = r.iterations,
                            !.node = IF r.status = "ok" THEN Len(ctxs) + 1 ELSE 0]
            /\ ctxs' = IF r.status = "ok"
                       THEN Append(ctxs, Node(0, r.values, "finalize", fin.ctx))
                       ELSE ctxs

(***************************************************************************)
(* The version comparator (utils/vercmp.rs).                               *)
(***************************************************************************)
Less == -1
Equal == 0
Greater == 1
\* Not an Ordering: the loop of compare_versions went round without consuming
\* a character, so the call would not return.
NoReturn == 2

reverse(o) == 0 - o

Digits == {"0", "1", "2", "3", "4", "5", "6", "7", "8", "9"}
Uppercase == {"A", "B", "X", "Y"}
Lowercase == {"a", "b", "c", "d", "m", "r", "x", "y"}

is_ascii_digit(c) == c \in Digits
is_ascii_uppercase(c) == c \in Uppercase
is_ascii_alphabetic(c) == c \in Uppercase \cup Lowercase

is_valid_char(c) ==
    is_ascii_alphabetic(c) \/ is_ascii_digit(c) \/ c \in {"-", ".", "~", "^"}

\* char::cmp, as an Ordering.
CharCmp(ca, cb) ==
    IF Code(ca) < Code(cb) THEN Less ELSE IF Code(ca) > Code(cb) THEN Greater ELSE Equal

skip_nothing(iter) == iter

\* The iterators are the characters not yet consumed.
RECURSIVE skip_invalid(_)
skip_invalid(iter) ==
    IF iter # <<>> /\ ~is_valid_char(iter[1]) THEN skip_invalid(Tail(iter)) ELSE iter

RECURSIVE SkipZeros(_)
SkipZeros(iter) ==
    IF iter # <<>> /\ iter[1] = "0" THEN SkipZeros(Tail(iter)) ELSE iter

\* The second loop of extract_number. The strings of the model are too short for
\* the saturation of u64 to happen.
RECURSIVE ReadDigits(_, _)
ReadDigits(iter, num) ==
    IF iter # <<>> /\ is_ascii_digit(iter[1])
    THEN ReadDigits(Tail(iter), num * 10 + (Code(iter[1]) - Code("0")))
    ELSE [num |-> num, iter |-> iter]

extract_number(iter) == ReadDigits(SkipZeros(iter), 0)

IntCmp(x, y) == IF x < y THEN Less ELSE IF x > y THEN Greater ELSE Equal

\* compare_numeric and compare_alphabetic return the Ordering and leave the
\* iterators where they stopped.
compare_numeric(iter_a, iter_b) ==
    LET num_a == extract_number(iter_a)
        num_b == extract_number(iter_b)
    IN  [ord |-> IntCmp(num_a.num, num_b.num), a |-> num_a.iter, b |-> num_b.iter]

\* The slip of answering Less in both of the arms where one side has no letter.
RECURSIVE compare_alphabetic_one_sided(_, _)
compare_alphabetic_one_sided(iter_a, iter_b) ==
    LET has_a == iter_a # <<>>
        has_b == iter_b # <<>>
        alpha_a == has_a /\ is_ascii_alphabetic(iter_a[1])
        alpha_b == has_b /\ is_ascii_alphabetic(iter_b[1])
        Return(o) == [ord |-> o, a |-> iter_a, b |-> iter_b]
    IN  IF alpha_a /\ alpha_b
        THEN IF iter_a[1] = iter_b[1]
             THEN compare_alphabetic_one_sided(Tail(iter_a), Tail(iter_b))
             ELSE Return(CharCmp(iter_a[1], iter_b[1]))
        ELSE IF alpha_a \/ alpha_b THEN Return(Less)
        ELSE Return(Equal)

RECURSIVE compare_alphabetic(_, _)
compare_alphabetic(iter_a, iter_b) ==
    LET has_a == iter_a # <<>>
        has_b == iter_b # <<>>
        alpha_a == has_a /\ is_ascii_alphabetic(iter_a[1])
        alpha_b == has_b /\ is_ascii_alphabetic(iter_b[1])
        Return(o) == [ord |-> o, a |-> iter_a, b |-> iter_b]
    IN  IF alpha_a /\ alpha_b
        THEN IF iter_a[1] = iter_b[1]
             THEN compare_alphabetic(Tail(iter_a), Tail(iter_b))
             ELSE IF is_ascii_uppercase(iter_a[1]) /\ ~is_ascii_uppercase(iter_b[1])
                  THEN Return(Less)
             ELSE IF ~is_ascii_uppercase(iter_a[1]) /\ is_ascii_uppercase(iter_b[1])
                  THEN Return(Greater)
             ELSE Return(CharCmp(iter_a[1], iter_b[1]))
        ELSE IF has_a /\ has_b /\ alpha_a THEN Return(Greater)
        ELSE IF has_a /\ has_b /\ alpha_b THEN Return(Less)
        ELSE IF has_a /\ ~has_b /\ alpha_a THEN Return(Greater)
        ELSE IF ~has_a /\ has_b /\ alpha_b THEN Return(Less)
        ELSE Return(Equal)

\* The macro handle_single_char: "less" and "greater" return, "both" consumes
\* the character on both sides and continues the loop, "none" falls through.
handle_single_char(ca, cb, c) ==
    IF ca = c /\ cb # c THEN "less"
    ELSE IF ca # c /\ cb = c THEN "greater"
    ELSE IF ca = c /\ cb = c THEN "both"
    ELSE "none"

\* The four uses of the macro, in the order of the code: the first that does
\* not fall through decides.
RECURSIVE HandleMarkers(_, _, _)
HandleMarkers(ca, cb, markers) ==
    IF markers = <<>> THEN "none"
    ELSE LET h == handle_single_char(ca, cb, Head(markers))
         IN  IF h # "none" THEN h ELSE HandleMarkers(ca, cb, Tail(markers))

\* The loop of compare_versions.
RECURSIVE CompareLoop(_, _)
CompareLoop(a_chars, b_chars) ==
    LET a == skip_invalid(a_chars)
        b == skip_invalid(b_chars)
    IN  IF a = <<>> /\ b = <<>> THEN Equal
        ELSE IF a = <<>> THEN Less
        ELSE IF b = <<>> THEN Greater
        ELSE LET ca == a[1]
                 cb == b[1]
                 h == HandleMarkers(ca, cb, <<"~", "-", "^", ".">>)
             IN  IF h = "less" THEN Less
                 ELSE IF h = "greater" THEN Greater
                 ELSE IF h = "both" THEN CompareLoop(Tail(a), Tail(b))
                 ELSE IF is_ascii_digit(ca) \/ is_ascii_digit(cb)
                 THEN LET result == compare_numeric(a, b)
                      IN  IF result.ord # Equal THEN result.ord
                          ELSE CompareLoop(result.a, result.b)
                 ELSE IF is_ascii_alphabetic(ca) \/ is_ascii_alphabetic(cb)
                 THEN LET result == compare_alphabetic(a, b)
                      IN  IF result.ord # Equal THEN result.ord
                          ELSE CompareLoop(result.a, result.b)
                 ELSE NoReturn

compare_versions(a, b) == CompareLoop(a, b)

compare_versions_optional(a, b) ==
    IF a # None /\ b # None THEN compare_versions(a[1], b[1])
    ELSE IF a # None THEN Less
    ELSE IF b # None THEN Greater
    ELSE Equal

\* The version strings compare_versions is called with: every string over
\* VerAlphabet of at most MaxVerLen characters, and the examples of the
\* documentation.
VerAlphabet == {"0", "1", "a", "B", "~", "_"}

RECURSIVE StringsUpTo(_, _)
StringsUpTo(alphabet, n) ==
    IF n = 0 THEN {<<>>}
    ELSE LET shorter == StringsUpTo(alphabet, n - 1)
         IN  shorter \cup {Append(s, c) : s \in shorter, c \in alphabet}

VerExamples ==
    {<<"1", ".", "0", ".", "2">>, <<"1", ".", "0", ".", "1", "0">>,
     <<"1", ".", "0", "~", "r", "c", "1">>, <<"1", ".", "0">>,
     <<"a", "b", "c">>, <<"a", "b", "d">>, <<"1", "_", "2">>, <<"1", "2">>,
     <<"a", ".", "_", "1">>}

VerStrings == StringsUpTo(VerAlphabet, MaxVerLen) \cup VerExamples

Compare ==
    /\ ord = None
    /\ ord' = Some(compare_versions(va, vb))
    /\ UNCHANGED <<va, vb>>

(***************************************************************************)
(* The entries and the list and matrix generators (entries.rs,             *)
(* generators/list.rs, generators/matrix.rs).                              *)
(***************************************************************************)
DigitChars == <<"0", "1", "2", "3", "4", "5", "6", "7", "8", "9">>

\* usize::to_string
RECURSIVE to_string(_)
to_string(n) ==
    IF n < 10 THEN <<DigitChars[n + 1]>>
    ELSE to_string(n \div 10) \o <<DigitChars[(n % 10) + 1]>>

EntryDeclaration(title, actions, values) ==
    [title |-> title, actions |-> actions, values |-> values]

\* BootableEntry::new; context is the index of the entry's context node.
BootableEntry(name, title, context, declaration) ==
    [name |-> name, title |-> title, context |-> context,
     declaration |-> declaration, default |-> FALSE, pin_name |-> FALSE]

\* The loop of list::generate from `index` on, on the node list cs with the
\* parent context c; it returns the node list with the forks it made.
RECURSIVE ListLoop(_, _, _, _, _)
ListLoop(cs, c, list, index, done) ==
    IF index >= Len(list.values) THEN [ctxs |-> cs, entries |-> done]
    ELSE LET combination == list.values[index + 1]
             forked == Append(cs, Node(c, <<>>, "fork", c))
             n == Len(forked)
             context == [forked EXCEPT ![n].values = Merge(@, combination),
                                       ![n].frozen = TRUE]
             entry == [list.entry EXCEPT !.actions =
                          [i \in 1..Len(list.entry.actions) |->
                              stamp(context, n, list.entry.actions[i])]]
         IN  ListLoop(context, c, list, index + 1,
                      Append(done, BootableEntry(to_string(index), entry.title,
                                                 n, entry)))

list_generate(cs, c, list) == ListLoop(cs, c, list, 0, <<>>)

\* The slip of taking the values in the outer loop and the combinations in the
\* inner one.
RECURSIVE ExtendValueMajor(_, _, _)
ExtendValueMajor(result, key, values) ==
    IF values = <<>> THEN <<>>
    ELSE [i \in 1..Len(result) |-> Merge(result[i], (key :> Head(values)))]
         \o ExtendValueMajor(result, key, Tail(values))

\* The two inner loops of build_matrix for one key: new_result.
RECURSIVE Extend(_, _, _)
Extend(result, key, values) ==
    IF result = <<>> THEN <<>>
    ELSE [i \in 1..Len(values) |-> Merge(Head(result), (key :> values[i]))]
         \o Extend(Tail(result), key, values)

\* The outer loop of build_matrix over the items not yet taken.
RECURSIVE MatrixLoop(_, _, _)
MatrixLoop(items, input, result) ==
    IF items = <<>> THEN result
    ELSE MatrixLoop(Tail(items), input,
                    Extend(result, Head(items), input[Head(items)]))

is_empty(item) == DOMAIN item = {}
NotEmpty(item) == ~is_empty(item)

build_matrix(input) ==
    SelectSeq(MatrixLoop(BTreeOrder(DOMAIN input), input, << <<>> >>), NotEmpty)

matrix_generate(cs, c, m) ==
    list_generate(cs, c, [entry |-> m.entry, values |-> build_matrix(m.values)])

\* The matrices the generator is called with: MatrixKeys to arrays of at most
\* MaxArrayLen of the MatrixValues, and the template entry.
K_m == <<"m">>
K_x == <<"x">>
K_y == <<"y">>
MatrixKeys == {K_m, K_x, K_y}
MatrixValues == {<<"a">>, <<"b">>, <<"c">>}
MatrixArrays == UNION {[1..n -> MatrixValues] : n \in 0..MaxArrayLen}
MatrixMaps == UNION {[D -> MatrixArrays] : D \in SUBSET MatrixKeys}
MatrixEntry ==
    EntryDeclaration(<<"X", "$", "x">>, << <<"$", "x", "-", "$", "y">> >>, <<>>)

\* matrix::generate on the context c.
Generate(c) ==
    /\ combos = None
    /\ ctxs[c].frozen
    /\ LET r == matrix_generate(ctxs, c, [entry |-> MatrixEntry, values |-> matrix])
       IN  /\ combos' = Some(build_matrix(matrix))
           /\ ctxs' = r.ctxs
           /\ entries' = r.entries
    /\ UNCHANGED <<matrix, last, fin>>

(***************************************************************************)
(* The BLS generator (generators/bls.rs, generators/bls/entry.rs).         *)
(***************************************************************************)

\* Option<String>::cmp: None is below every Some, and Some compare as strings.
OptionCmp(a, b) ==
    IF a = None /\ b = None THEN Equal
    ELSE IF a = None THEN Less
    ELSE IF b = None THEN Greater
    ELSE StrCmp(a[1], b[1])

\* The slip of leaving out the reverse() of the version comparison.
sort_entries_oldest_first(a, b) ==
    LET by_sort_key == OptionCmp(a.bls.sort_key, b.bls.sort_key)
        by_machine_id == OptionCmp(a.bls.machine_id, b.bls.machine_id)
        by_version == compare_versions_optional(a.bls.version, b.bls.version)
    IN  IF by_sort_key # Equal THEN by_sort_key
        ELSE IF by_machine_id # Equal THEN by_machine_id
        ELSE IF by_version # Equal THEN by_version
        ELSE reverse(compare_versions(a.boot.name, b.boot.name))

\* a and b are pairs of a BlsEntry and its BootableEntry.
sort_entries(a, b) ==
    LET by_sort_key == OptionCmp(a.bls.sort_key, b.bls.sort_key)
        by_machine_id == OptionCmp(a.bls.machine_id, b.bls.machine_id)
        by_version ==
            reverse(compare_versions_optional(a.bls.version, b.bls.version))
    IN  IF by_sort_key # Equal THEN by_sort_key
        ELSE IF by_machine_id # Equal THEN by_machine_id
        ELSE IF by_version # Equal THEN by_version
        ELSE reverse(compare_versions(a.boot.name, b.boot.name))

\* Vec::sort_by(sort_entries): a stable sort; x goes behind the elements
\* that are not Greater than it.
RECURSIVE InsertSorted(_, _)
InsertSorted(done, x) ==
    IF done = <<>> THEN <<x>>
    ELSE IF sort_entries(done[1], x) # Greater
         THEN <<done[1]>> \o InsertSorted(Tail(done), x)
         ELSE <<x>> \o done

RECURSIVE sort_by(_)
sort_by(v) ==
    IF v = <<>> THEN <<>>
    ELSE InsertSorted(sort_by(SubSeq(v, 1, Len(v) - 1)), v[Len(v)])

\* str::to_lowercase on the letters of the file names.
LowerOf(c) ==
    CASE c = "C" -> "c" [] c = "O" -> "o" [] c = "N" -> "n" [] c = "F" -> "f"
      [] c = "A" -> "a" [] c = "B" -> "b" [] OTHER -> c

to_lowercase(s) == [i \in 1..Len(s) |-> LowerOf(s[i])]

DotConf == <<".", "c", "o", "n", "f">>

\* BlsEntry::is_valid: the entry file names a linux or an efi image.
is_valid(entry) == entry.linux_or_efi

K_title_base == <<"t", "i", "t", "l", "e", "-", "b", "a", "s", "e">>
K_title == <<"t", "i", "t", "l", "e">>
K_version == <<"v", "e", "r", "s", "i", "o", "n">>
K_machine_id == <<"m", "a", "c", "h", "i", "n", "e", "-", "i", "d">>

\* The values the generator sets in the context of an entry; the title, paths
\* and options of the entry file are not part of the model, so title-base is
\* the file stem.
BlsValues(name, entry) ==
    LET version == unwrap_or_default(entry.version)
        title_full == IF version # <<>> THEN name \o <<" ">> \o version ELSE name
    IN  [key \in {K_title_base, K_title, K_version, K_machine_id} |->
            CASE key = K_title_base -> name
              [] key = K_title -> title_full
              [] key = K_version -> version
              [] OTHER -> unwrap_or_default(entry.machine_id)]

\* The loop of bls::generate over the directory items not yet read.
RECURSIVE BlsLoop(_, _, _, _, _)
BlsLoop(cs, c, template, items, done) ==
    IF items = <<>> THEN [ctxs |-> cs, entries |-> done]
    ELSE LET item == Head(items)
             file_name == item.file_name
             name == SubSeq(file_name, 1, Len(file_name) - 5)
             skip == \/ ~item.is_regular_file
                     \/ ~ends_with(to_lowercase(file_name), DotConf)
                     \/ name = <<>>
                     \/ ~is_valid(item.entry)
             n == Len(cs) + 1
             context == Append(cs, [Node(c, BlsValues(name, item.entry), "fork", c)
                                       EXCEPT !.frozen = TRUE])
             boot == [BootableEntry(name, template.title, n, template)
                         EXCEPT !.pin_name = TRUE]
         IN  IF skip THEN BlsLoop(cs, c, template, Tail(items), done)
             ELSE BlsLoop(context, c, template, Tail(items),
                          Append(done, [bls |-> item.entry, boot |-> boot]))

bls_generate(cs, c, template, items) ==
    LET r == BlsLoop(cs, c, template, items, <<>>)
    IN  [ctxs |-> r.ctxs, entries |-> sort_by(r.entries)]

\* The directories the generator reads: at most MaxBlsFiles items with
\* different file names.
BlsEntryOf(valid, sort_key, machine_id, version) ==
    [linux_or_efi |-> valid, sort_key |-> sort_key, machine_id |-> machine_id,
     version |-> version]

BlsConfNames ==
    {<<"a">> \o DotConf, <<"b">> \o DotConf, <<"_", "a">> \o <<".", "C", "O", "N", "F">>}

BlsItems ==
    {[file_name |-> f, is_regular_file |-> TRUE,
      entry |-> BlsEntryOf(TRUE, sk, mid, ver)] :
        f \in BlsConfNames, sk \in {None, Some(<<"a">>)},
        mid \in {None, Some(<<"m">>)},
        ver \in {None, Some(<<"5">>), Some(<<"6">>)}}
    \cup {[file_name |-> f, is_regular_file |-> r,
           entry |-> BlsEntryOf(~r, None, None, None)] :
             f \in BlsConfNames, r \in BOOLEAN}
    \cup {[file_name |-> f, is_regular_file |-> TRUE,
           entry |-> BlsEntryOf(TRUE, None, None, None)] :
             f \in {DotConf, <<"a", ".", "t", "x", "t">>}}

BlsListings ==
    UNION {{s \in [1..n -> BlsItems] :
              \A i, j \in 1..n : i # j => s[i].file_name # s[j].file_name} :
           n \in 0..MaxBlsFiles}

BlsTemplate == EntryDeclaration(<<"$", "t", "i", "t", "l", "e">>, <<>>, <<>>)

\* bls::generate on the context c.
GenerateBls(c) ==
    /\ sorted = None
    /\ ctxs[c].frozen
    /\ LET r == bls_generate(ctxs, c, BlsTemplate, listing)
       IN  /\ sorted' = Some(r.entries)
           /\ ctxs' = r.ctxs
           /\ entries' = [i \in 1..Len(r.entries) |-> r.entries[i].boot]
    /\ UNCHANGED <<listing, last, fin>>

(***************************************************************************)
(* The boot sequence run() (main.rs) with the bootloader interface         *)
(* (integrations/bootloader_interface.rs) and the menu (menu.rs).          *)
(***************************************************************************)

\* GeneratorDeclaration: each of the three configurations is an Option.
GeneratorDeclaration(m, b, l) == [matrix |-> m, bls |-> b, list |-> l]

\* generators::generate: the dispatch on the declaration; a declaration
\* without a configuration is the error "unknown generator configuration".
\* The items of a BLS configuration are what its directory holds.
generate(cs, c, generator) ==
    IF generator.matrix # None
    THEN [status |-> "ok"] @@ matrix_generate(cs, c, generator.matrix[1])
    ELSE IF generator.bls # None
    THEN LET r == bls_generate(cs, c, generator.bls[1].entry, generator.bls[1].items)
         IN  [status |-> "ok", ctxs |-> r.ctxs,
              entries |-> [i \in 1..Len(r.entries) |-> r.entries[i].boot]]
    ELSE IF generator.list # None
    THEN [status |-> "ok"] @@ list_generate(cs, c, generator.list[1])
    ELSE [status |-> "err", ctxs |-> cs, entries |-> <<>>]

\* str::trim_end_matches("*")
RECURSIVE trim_end_matches_star(_)
trim_end_matches_star(s) ==
    IF s # <<>> /\ s[Len(s)] = "*" THEN trim_end_matches_star(SubSeq(s, 1, Len(s) - 1))
    ELSE s

\* BootableEntry::is_match
is_match(entry, needle) ==
    IF ends_with(needle, <<"*">>)
    THEN LET partial == trim_end_matches_star(needle)
         IN  starts_with(entry.name, partial) \/ starts_with(entry.title, partial)
    ELSE entry.name = needle \/ entry.title = needle

\* The slip of taking the first entry when none is found.
findOrFirst(needle, haystack) ==
    LET hits == {i \in 1..Len(haystack) :
                    is_match(haystack[i], needle) \/ to_string(i - 1) = needle}
    IN  IF haystack = <<>> THEN 0
        ELSE IF hits = {} THEN 1 ELSE CHOOSE i \in hits : \A j \in hits : i <= j

\* BootableEntry::find: the position (from 1) of the entry found, 0 for None.
find(needle, haystack) ==
    LET hits == {i \in 1..Len(haystack) :
                    is_match(haystack[i], needle) \/ to_string(i - 1) = needle}
    IN  IF hits = {} THEN 0 ELSE CHOOSE i \in hits : \A j \in hits : i <= j

\* The whole loop of finalize.
RECURSIVE FinalizeLoop(_, _)
FinalizeLoop(current_values, done) ==
    LET r == FinalizePassOf(current_values, done)
    IN  IF r.status = "again" THEN FinalizeLoop(r.values, r.iterations) ELSE r

\* The static entries of the configuration, in the order of its map.
RECURSIVE StaticEntries(_, _, _)
StaticEntries(names, config_entries, c) ==
    IF names = <<>> THEN <<>>
    ELSE LET entry == config_entries[Head(names)]
         IN  <<BootableEntry(Head(names), entry.title, c, entry)>>
             \o StaticEntries(Tail(names), config_entries, c)

\* The slip of prefixing the pinned names too.
PrefixedAlways(generated, prefix) ==
    [i \in 1..Len(generated) |-> [generated[i] EXCEPT !.name = prefix \o @]]

\* if !entry.is_pin_name() { entry.prepend_name_prefix(&prefix) }
Prefixed(generated, prefix) ==
    [i \in 1..Len(generated) |->
        IF generated[i].pin_name THEN generated[i]
        ELSE [generated[i] EXCEPT !.name = prefix \o @]]

\* The slip of going on with the next generator after an error.
RECURSIVE GeneratorsLoopLenient(_, _, _, _, _)
GeneratorsLoopLenient(cs, c, names, generators, done) ==
    IF names = <<>> THEN [status |-> "ok", ctxs |-> cs, entries |-> done]
    ELSE LET forked == Append(cs, [Node(c, <<>>, "fork", c) EXCEPT !.frozen = TRUE])
             r == generate(forked, Len(forked), generators[Head(names)])
         IN  GeneratorsLoopLenient(r.ctxs, c, Tail(names), generators,
                                   done \o Prefixed(r.entries, Head(names) \o <<"-">>))

\* The loop of run() over the generators not yet run, under the context c.
RECURSIVE GeneratorsLoop(_, _, _, _, _)
GeneratorsLoop(cs, c, names, generators, done) ==
    IF names = <<>> THEN [status |-> "ok", ctxs |-> cs, entries |-> done]
    ELSE LET forked == Append(cs, [Node(c, <<>>, "fork", c) EXCEPT !.frozen = TRUE])
             r == generate(forked, Len(forked), generators[Head(names)])
             prefix == Head(names) \o <<"-">>
         IN  IF r.status # "ok"
             THEN [status |-> "err", ctxs |-> r.ctxs, entries |-> done]
             ELSE GeneratorsLoop(r.ctxs, c, Tail(names), generators,
                                 done \o Prefixed(r.entries, prefix))

\* entry.context().fork() and context.insert(&entry.declaration().values)
ForkWith(cs, c, values) == Append(cs, Node(c, values, "fork", c))

\* The context finalize returned, frozen.
Finalized(cs, r) ==
    Append(cs, [Node(0, r.values, "finalize", Len(cs)) EXCEPT !.frozen = TRUE])

\* swap_context and restamp_title
Restamped(cs, entry) ==
    [entry EXCEPT !.context = Len(cs), !.title = stamp(cs, Len(cs), @)]

\* mark_default if the entry matches the configured default entry.
MarkedDefault(entry, default_entry) ==
    IF default_entry # None /\ is_match(entry, default_entry[1])
    THEN [entry EXCEPT !.default = TRUE]
    ELSE entry

\* The loop of run() that gives every entry its finalized context, restamps
\* its title and marks the configured default, from entry i on.
RECURSIVE ResolveLoop(_, _, _, _)
ResolveFinal(final, list, i, default_entry) ==
    ResolveLoop(final,
                [list EXCEPT ![i] = MarkedDefault(Restamped(final, @), default_entry)],
                i + 1, default_entry)

ResolveStep(context, r, list, i, default_entry) ==
    IF r.status # "ok"
    THEN [status |-> "err", ctxs |-> context, entries |-> list]
    ELSE ResolveFinal(Finalized(context, r), list, i, default_entry)

ResolveEntry(context, list, i, default_entry) ==
    ResolveStep(context, FinalizeLoop(all_values(context, Len(context)), 0),
                list, i, default_entry)

ResolveLoop(cs, list, i, default_entry) ==
    IF i > Len(list) THEN [status |-> "ok", ctxs |-> cs, entries |-> list]
    ELSE ResolveEntry(ForkWith(cs, list[i].context, list[i].declaration.values),
                      list, i, default_entry)

\* The persistent store: the variables of the bootloader interface, each an
\* Option.
Store(oneshot, default, timeout, timeout_oneshot) ==
    [LoaderEntryOneShot |-> oneshot, LoaderEntryDefault |-> default,
     LoaderConfigTimeout |-> timeout, LoaderConfigTimeoutOneShot |-> timeout_oneshot,
     LoaderEntries |-> None, LoaderEntrySelected |-> None,
     LoaderTimeMenuUSec |-> None]

\* BootloaderInterfaceTimeout
Timeout(kind, secs) == [kind |-> kind, secs |-> secs]
Unspecified == Timeout("Unspecified", 0)
MenuForce == Timeout("MenuForce", 0)
MenuHidden == Timeout("MenuHidden", 0)
MenuDisabled == Timeout("MenuDisabled", 0)

S_menu_force == <<"m", "e", "n", "u", "-", "f", "o", "r", "c", "e">>
S_menu_hidden == <<"m", "e", "n", "u", "-", "h", "i", "d", "d", "e", "n">>
S_menu_disabled == <<"m", "e", "n", "u", "-", "d", "i", "s", "a", "b", "l", "e", "d">>

\* str::parse::<u64> on a string that is not empty: None for the error.
parse_u64(value) ==
    IF \A i \in 1..Len(value) : value[i] \in Digits
    THEN Some(Decimal(value))
    ELSE None

\* get_timeout_value: status "err" is the failed parse; the variable is removed
\* before its value is looked at.
get_timeout_value(st, key, remove) ==
    IF st[key] = None THEN [status |-> "ok", value |-> None, store |-> st]
    ELSE LET value == st[key][1]
             after == IF remove THEN [st EXCEPT ![key] = None] ELSE st
             Return(t) == [status |-> "ok", value |-> Some(t), store |-> after]
         IN  IF value = <<>> THEN Return(Unspecified)
             ELSE IF value = S_menu_force THEN Return(MenuForce)
             ELSE IF value = S_menu_hidden THEN Return(MenuHidden)
             ELSE IF value = S_menu_disabled THEN Return(MenuDisabled)
             ELSE IF parse_u64(value) = None
             THEN [status |-> "err", value |-> None, store |-> after]
             ELSE IF parse_u64(value)[1] = 0 THEN Return(MenuHidden)
             ELSE Return(Timeout("Timeout", parse_u64(value)[1]))

get_timeout(st) ==
    LET oneshot == get_timeout_value(st, "LoaderConfigTimeoutOneShot", TRUE)
        direct == get_timeout_value(oneshot.store, "LoaderConfigTimeout", FALSE)
    IN  IF oneshot.status = "err" \/ oneshot.value # None
        THEN [oneshot EXCEPT !.value = IF @ = None THEN Unspecified ELSE @[1]]
        ELSE IF direct.status = "err" \/ direct.value # None
        THEN [direct EXCEPT !.value = IF @ = None THEN Unspecified ELSE @[1]]
        ELSE [status |-> "ok", value |-> Unspecified, store |-> st]

get_default_entry(st) == st.LoaderEntryDefault

\* The slip of reading the one-shot entry without removing it.
get_oneshot_entry_kept(st) == [value |-> st.LoaderEntryOneShot, store |-> st]

\* get_oneshot_entry: the value read, and the store without the variable.
get_oneshot_entry(st) ==
    [value |-> st.LoaderEntryOneShot, store |-> [st EXCEPT !.LoaderEntryOneShot = None]]

\* The slip of not writing the list.
set_entries_skipped(st, names) == st

\* The data of LoaderEntries: the names back to back, each ended by the code
\* unit 0.
NUL == "NUL"
RECURSIVE Terminated(_)
Terminated(names) ==
    IF names = <<>> THEN <<>>
    ELSE Head(names) \o <<NUL>> \o Terminated(Tail(names))

\* set_entries: nothing is written when there is no data.
set_entries(st, names) ==
    IF Terminated(names) = <<>> THEN st
    ELSE [st EXCEPT !.LoaderEntries = Some(Terminated(names))]

set_selected_entry(st, entry) == [st EXCEPT !.LoaderEntrySelected = Some(entry)]

mark_menu(st) == [st EXCEPT !.LoaderTimeMenuUSec = Some(<<"t">>)]

\* The local variables of run() before they are assigned.
NoLocals ==
    [bootloader_interface_timeout |-> Unspecified,
     bootloader_interface_default_entry |-> None,
     bootloader_interface_oneshot_entry |-> None,
     force_boot_entry |-> None, force_boot_menu |-> FALSE, menu_timeout |-> 0,
     displays |-> 0, next_action |-> 0, read |-> None]

\* What run() did, in order: a phase, the loading of the drivers, or an
\* action of the entry at a position of the entry list.
Event(kind, phase, entry, action) ==
    [kind |-> kind, phase |-> phase, entry |-> entry, action |-> action]

\* The slip of letting --boot win over the one-shot entry.
ForceBootEntryBootFirst(boot, oneshot) == IF boot # None THEN boot ELSE oneshot

\* force_boot_entry: --boot, replaced by the one-shot entry when there is one.
ForceBootEntry(boot, oneshot) == IF oneshot # None THEN oneshot ELSE boot

\* The slip of marking the entries that match without unmarking the others.
ApplyInterfaceDefaultMarkOnly(list, default_entry) ==
    IF default_entry = None THEN list
    ELSE [i \in 1..Len(list) |->
             [list[i] EXCEPT !.default = @ \/ is_match(list[i], default_entry[1])]]

\* The marks after the default entry of the bootloader interface is applied.
ApplyInterfaceDefault(list, default_entry) ==
    IF default_entry = None THEN list
    ELSE [i \in 1..Len(list) |->
             [list[i] EXCEPT !.default = is_match(list[i], default_entry[1])]]

\* If no entry is the default, the first entry is marked.
FirstIsDefault(list) ==
    IF list # <<>> /\ \A i \in 1..Len(list) : ~list[i].default
    THEN [list EXCEPT ![1].default = TRUE]
    ELSE list

\* The root context, the early phase, the drivers, the context with the
\* extracted values (none in the model) and the startup phase.
Prepare ==
    /\ pc = "start"
    /\ ctxs' = <<[Node(0, cfg.config.values, "new", 0) EXCEPT !.frozen = TRUE],
                 [Node(1, <<>>, "fork", 1) EXCEPT !.frozen = TRUE]>>
    /\ executed' = executed \o <<Event("phase", "early", 0, <<>>),
                                 Event("drivers", "", 0, <<>>),
                                 Event("phase", "startup", 0, <<>>)>>
    /\ pc' = "entries"
    /\ UNCHANGED <<last, fin, cfg, store, entries, loc, selected>>

\* The static entries and the entries of the generators; the error of a
\* generator ends run().
BuildEntries ==
    /\ pc = "entries"
    /\ LET c == Len(ctxs)
           static == StaticEntries(BTreeOrder(DOMAIN cfg.config.entries),
                                   cfg.config.entries, c)
           generated == GeneratorsLoop(ctxs, c, BTreeOrder(DOMAIN cfg.config.generators),
                                       cfg.config.generators, static)
       IN  /\ pc' = IF generated.status = "ok" THEN "resolve" ELSE "error"
           /\ ctxs' = generated.ctxs
           /\ entries' = IF generated.status = "ok" THEN generated.entries ELSE entries
    /\ UNCHANGED <<last, fin, cfg, store, loc, selected, executed>>

\* The finalized context, restamped title and default mark of every entry;
\* the error of a finalize ends run().
ResolveEntries ==
    /\ pc = "resolve"
    /\ LET resolved == ResolveLoop(ctxs, entries, 1, cfg.config.options.default_entry)
       IN  /\ pc' = IF resolved.status = "ok" THEN "publish" ELSE "error"
           /\ ctxs' = resolved.ctxs
           /\ entries' = resolved.entries
    /\ UNCHANGED <<last, fin, cfg, store, loc, selected, executed>>

SetEntries ==
    /\ pc = "publish"
    /\ store' = set_entries(store, [i \in 1..Len(entries) |-> entries[i].name])
    /\ pc' = "late"
    /\ UNCHANGED <<ctxVars, cfg, entries, loc, selected, executed>>

LatePhase ==
    /\ pc = "late"
    /\ executed' = Append(executed, Event("phase", "late", 0, <<>>))
    /\ pc' = "interface"
    /\ UNCHANGED <<ctxVars, cfg, store, entries, loc, selected>>

\* get_timeout, get_default_entry and get_oneshot_entry; the failed parse of
\* a timeout ends run() before the other two are called.
ReadInterface ==
    /\ pc = "interface"
    /\ LET timeout == get_timeout(store)
           oneshot == get_oneshot_entry(timeout.store)
       IN  IF timeout.status = "err"
           THEN /\ store' = timeout.store
                /\ pc' = "error"
                /\ UNCHANGED loc
           ELSE /\ store' = oneshot.store
                /\ loc' = [loc EXCEPT
                      !.bootloader_interface_timeout = timeout.value,
                      !.bootloader_interface_default_entry = get_default_entry(timeout.store),
                      !.bootloader_interface_oneshot_entry = oneshot.value]
                /\ pc' = "arbitrate"
    /\ UNCHANGED <<ctxVars, cfg, entries, selected, executed>>

\* force_boot_entry, force_boot_menu, menu_timeout and the default marks.
Arbitrate ==
    /\ pc = "arbitrate"
    /\ LET policy == loc.bootloader_interface_timeout
           configured == IF cfg.options.menu_timeout # None
                         THEN cfg.options.menu_timeout[1]
                         ELSE cfg.config.options.menu_timeout
       IN  loc' = [loc EXCEPT
              !.force_boot_entry =
                  ForceBootEntry(cfg.options.boot, loc.bootloader_interface_oneshot_entry),
              !.force_boot_menu = cfg.options.force_menu \/ policy.kind = "MenuForce",
              !.menu_timeout =
                  IF policy.kind \in {"MenuHidden", "MenuDisabled"} THEN 0
                  ELSE IF policy.kind = "Timeout" THEN policy.secs
                  ELSE configured]
    /\ entries' = FirstIsDefault(
                      ApplyInterfaceDefault(entries, loc.bootloader_interface_default_entry))
    /\ pc' = "select"
    /\ UNCHANGED <<ctxVars, cfg, store, selected, executed>>

\* The slip of looking the forced entry up without asking for the forced menu.
SelectForcedDespiteMenu ==
    /\ pc = "select"
    /\ loc.force_boot_entry # None
    /\ LET found == find(loc.force_boot_entry[1], entries)
       IN  /\ selected' = found
           /\ pc' = IF found = 0 THEN "error" ELSE "selected"
    /\ UNCHANGED <<ctxVars, cfg, store, entries, loc, executed>>

\* BootableEntry::find of the forced entry.
SelectForced ==
    /\ pc = "select"
    /\ ~loc.force_boot_menu /\ loc.force_boot_entry # None
    /\ LET found == find(loc.force_boot_entry[1], entries)
       IN  /\ selected' = found
           /\ pc' = IF found = 0 THEN "error" ELSE "selected"
    /\ UNCHANGED <<ctxVars, cfg, store, entries, loc, executed>>

\* menu::select is entered: mark_menu.
MenuSelect ==
    /\ pc = "select"
    /\ loc.force_boot_menu \/ loc.force_boot_entry = None
    /\ store' = mark_menu(store)
    /\ pc' = "menu_display"
    /\ UNCHANGED <<ctxVars, cfg, entries, loc, selected, executed>>

\* The head of the loop of select_with_input: the entries are printed unless
\* the timeout is zero; displays counts the printed lists, up to MaxDisplays.
MenuDisplay ==
    /\ pc = "menu_display"
    /\ loc' = IF loc.menu_timeout # 0 /\ loc.displays < MaxDisplays
              THEN [loc EXCEPT !.displays = @ + 1]
              ELSE loc
    /\ pc' = "menu_wait"
    /\ UNCHANGED <<ctxVars, cfg, store, entries, selected, executed>>

\* MenuOperation
Number(index) == [kind |-> "Number", index |-> index]
Exit == [kind |-> "Exit", index |-> 0]
Continue == [kind |-> "Continue", index |-> 0]
TimeoutOp == [kind |-> "Timeout", index |-> 0]
Nop == [kind |-> "Nop", index |-> 0]

\* The position (from 1) of the first default entry, 0 for None.
FirstDefault(list) ==
    LET marked == {i \in 1..Len(list) : list[i].default}
    IN  IF marked = {} THEN 0 ELSE CHOOSE i \in marked : \A j \in marked : i <= j

\* The keys of the console: Key::Printable with a character (which may be
\* outside ASCII), Key::Special(ScanCode::ESCAPE), another Key::Special, and
\* no key at all (read_key returns None).
Printable(c, ascii) == [kind |-> "Printable", c |-> c, is_ascii |-> ascii]
Escape == [kind |-> "Escape", c |-> "", is_ascii |-> FALSE]
Special == [kind |-> "Special", c |-> "", is_ascii |-> FALSE]
NoKey == [kind |-> "None", c |-> "", is_ascii |-> FALSE]

ENTRY_NUMBER_TABLE == <<"0", "1", "2", "3", "4", "5", "6", "7", "8", "9">>

\* ENTRY_NUMBER_TABLE.iter().position(|&x| x == c) as an Option.
position(c) ==
    IF \E i \in 1..Len(ENTRY_NUMBER_TABLE) : ENTRY_NUMBER_TABLE[i] = c
    THEN Some((CHOOSE i \in 1..Len(ENTRY_NUMBER_TABLE) : ENTRY_NUMBER_TABLE[i] = c) - 1)
    ELSE None

\* What uefi::boot::wait_for_event and uefi::boot::close_event return: the
\* index of the event that triggered (0 the timer, 1 the key), or an error.
Ok(index) == [is_err |-> FALSE, index |-> index]
Err == [is_err |-> TRUE, index |-> 0]

\* What read() returns: Ok(operation) or the error named.
Returned(operation) == [status |-> "ok", operation |-> operation, error |-> ""]
Failed(error) == [status |-> "err", operation |-> Nop, error |-> error]

\* The slip of going on waiting when the timer event has triggered.
readPastTimer(event_result, close_event_result, key) ==
    LET warned == event_result.is_err /\ close_event_result.is_err
    IN  IF ~warned /\ close_event_result.is_err
        THEN Failed("unable to close timer event")
        ELSE IF event_result.is_err THEN Failed("unable to wait for event")
        ELSE IF event_result.index = 0 THEN Returned(Nop)
        ELSE IF key.kind = "None" THEN Failed("no key was pressed")
        ELSE IF key.kind = "Printable"
        THEN IF ~key.is_ascii THEN Returned(Continue)
             ELSE IF position(key.c) # None THEN Returned(Number(position(key.c)[1]))
             ELSE Returned(Continue)
        ELSE IF key.kind = "Escape" THEN Returned(Exit)
        ELSE Returned(Nop)

\* read() from wait_for_event on: close_event_result is propagated with `?`
\* unless the wait and the close both failed, then event_result is.
read(event_result, close_event_result, key) ==
    LET warned == event_result.is_err /\ close_event_result.is_err
    IN  IF ~warned /\ close_event_result.is_err
        THEN Failed("unable to close timer event")
        ELSE IF event_result.is_err THEN Failed("unable to wait for event")
        ELSE IF event_result.index = 0 THEN Returned(TimeoutOp)
        ELSE IF key.kind = "None" THEN Failed("no key was pressed")
        ELSE IF key.kind = "Printable"
        THEN IF ~key.is_ascii THEN Returned(Continue)
             ELSE IF position(key.c) # None THEN Returned(Number(position(key.c)[1]))
             ELSE Returned(Continue)
        ELSE IF key.kind = "Escape" THEN Returned(Exit)
        ELSE Returned(Nop)

\* The slip of arming the timer with a budget that every printed list after
\* the first shortens by a second.
TimerTriggerOfBudget(timeout) == (timeout - (loc.displays - 1)) * 10000000

\* TimerTrigger::Relative(timeout_hundred_nanos): the timeout of read(), in
\* seconds in the model, in units of 100 nanoseconds.
TimerTrigger(timeout) == timeout * 10000000

\* The call of read(input, &timeout) and what it returned, as the run
\* remembers it: trigger is what set_timer armed the timer event with.
ReadCall(event_result, close_event_result, key) ==
    [event_result |-> event_result, close_event_result |-> close_event_result,
     key |-> key, trigger |-> TimerTrigger(loc.menu_timeout),
     returned |-> read(event_result, close_event_result, key)]

\* One turn of the inner loop of select_with_input and the match on its
\* operation: read() is called unless the timeout is zero, with what
\* wait_for_event, close_event and read_key give; its error ends run().
MenuRead(event_result, close_event_result, key) ==
    /\ pc = "menu_wait"
    /\ LET call == ReadCall(event_result, close_event_result, key)
           operation == IF loc.menu_timeout = 0 THEN Exit ELSE call.returned.operation
       IN  /\ loc' = IF loc.menu_timeout = 0 THEN loc ELSE [loc EXCEPT !.read = Some(call)]
           /\ IF loc.menu_timeout # 0 /\ call.returned.status = "err"
              THEN /\ pc' = "error"
                   /\ UNCHANGED selected
              ELSE CASE operation.kind = "Nop" ->
                            /\ pc' = "menu_wait"
                            /\ UNCHANGED selected
                     [] operation.kind = "Continue" ->
                            /\ pc' = "menu_display"
                            /\ UNCHANGED selected
                     [] operation.kind = "Number" ->
                            IF operation.index < Len(entries)
                            THEN /\ selected' = operation.index + 1
                                 /\ pc' = "selected"
                            ELSE /\ pc' = "menu_display"
                                 /\ UNCHANGED selected
                     [] OTHER ->
                            /\ selected' = FirstDefault(entries)
                            /\ pc' = IF FirstDefault(entries) = 0 THEN "error" ELSE "selected"
    /\ UNCHANGED <<ctxVars, cfg, store, entries, executed>>

\* read() returns an error before it waits: the key event, the timer event
\* or the timer could not be set up (a timeout beyond u64::MAX units of 100
\* nanoseconds, which the model has no number for, is among these).
MenuReadError ==
    /\ pc = "menu_wait"
    /\ loc.menu_timeout # 0
    /\ pc' = "error"
    /\ UNCHANGED <<ctxVars, cfg, store, entries, loc, selected, executed>>

SetSelectedEntry ==
    /\ pc = "selected"
    /\ store' = set_selected_entry(store, entries[selected].name)
    /\ loc' = [loc EXCEPT !.next_action = 1]
    /\ pc' = IF entries[selected].declaration.actions = <<>> THEN "done" ELSE "execute"
    /\ UNCHANGED <<ctxVars, cfg, entries, selected, executed>>

\* One turn of the loop over the actions of the selected entry.
ExecuteAction ==
    /\ pc = "execute"
    /\ LET entry == entries[selected]
           action == stamp(ctxs, entry.context, entry.declaration.actions[loc.next_action])
       IN  /\ executed' = Append(executed, Event("action", "", selected, action))
           /\ loc' = [loc EXCEPT !.next_action = @ + 1]
           /\ pc' = IF loc.next_action = Len(entry.declaration.actions)
                    THEN "done" ELSE "execute"
    /\ UNCHANGED <<ctxVars, cfg, store, entries, selected>>

\* The options, configurations and stores run() starts with.
N_a == <<"a">>
N_b == <<"b">>
N_zz == <<"z", "z">>
RunEntries ==
    [name \in {N_a, N_b} |->
        IF name = N_a
        THEN EntryDeclaration(<<"A">>, << <<"r", "u", "n", "-", "$", "x">> >>,
                              (K_x :> <<"a">>))
        ELSE EntryDeclaration(<<"B">>, << <<"b">>, <<"$", "y">> >>, <<>>)]
RunGenerators ==
    [name \in {K_m} |->
        GeneratorDeclaration(Some([entry |-> MatrixEntry,
                                   values |-> (K_x :> << <<"a">>, <<"b">> >>)]),
                             None, None)]

\* The static entries with one more that has the name of a generated entry.
N_m_0 == <<"m", "-", "0">>
ClashEntries ==
    RunEntries @@ (N_m_0 :> EntryDeclaration(<<"C">>, << <<"c">> >>, <<>>))

\* The generator "m" and a generator "z" whose declaration has no
\* configuration.
N_z == <<"z">>
FailingGenerators == RunGenerators @@ (N_z :> GeneratorDeclaration(None, None, None))

\* A BLS generator "l" over a directory that holds a.conf and b.conf.
N_l == <<"l">>
PinnedGenerators ==
    [name \in {N_l} |->
        GeneratorDeclaration(
            None,
            Some([entry |-> BlsTemplate,
                  items |-> <<[file_name |-> N_a \o DotConf, is_regular_file |-> TRUE,
                               entry |-> BlsEntryOf(TRUE, None, None, Some(<<"5">>))],
                              [file_name |-> N_b \o DotConf, is_regular_file |-> TRUE,
                               entry |-> BlsEntryOf(TRUE, None, None, Some(<<"6">>))]>>]),
            None)]

\* One matrix generator "boot" with the values {mode: [a, b]} and the
\* template title "Run $mode".
N_boot == <<"b", "o", "o", "t">>
K_mode == <<"m", "o", "d", "e">>
BootGenerators ==
    [name \in {N_boot} |->
        GeneratorDeclaration(
            Some([entry |-> EntryDeclaration(<<"R", "u", "n", " ", "$", "m", "o", "d", "e">>,
                                             << <<"$", "m", "o", "d", "e">> >>, <<>>),
                  values |-> (K_mode :> << <<"a">>, <<"b">> >>)]),
            None, None)]
RunBoots == {None, Some(N_a), Some(N_b), Some(N_zz)}
RunOneShots == {None, Some(N_a), Some(<<"m", "-", "1">>), Some(N_zz)}
RunTimeouts == {None, Some(S_menu_force), Some(S_menu_hidden), Some(<<"7">>), Some(<<"x">>)}
RunOptions ==
    [boot : RunBoots, force_menu : BOOLEAN, menu_timeout : {None, Some(3)}]
RootConfiguration(default_entry, menu_timeout, config_entries, generators) ==
    [options |-> [default_entry |-> default_entry, menu_timeout |-> menu_timeout],
     values |-> (K_y :> <<"Y">>), entries |-> config_entries, generators |-> generators]
RunDefaults == {None, Some(N_b), Some(<<"m", "-", "*">>)}
\* The configurations with other entries or generators than RunEntries and
\* RunGenerators; the last one declares nothing.
OtherConfigurations ==
    {RootConfiguration(None, 5, ClashEntries, RunGenerators),
     RootConfiguration(None, 5, RunEntries, FailingGenerators),
     RootConfiguration(None, 5, RunEntries, PinnedGenerators),
     RootConfiguration(None, 5, <<>>, BootGenerators),
     RootConfiguration(None, 5, <<>>, <<>>)}
RunConfigurations ==
    {RootConfiguration(default_entry, menu_timeout, RunEntries, RunGenerators) :
        default_entry \in RunDefaults, menu_timeout \in {0, 5}}
    \cup OtherConfigurations
RunStores ==
    {Store(oneshot, default, timeout, timeout_oneshot) :
        oneshot \in RunOneShots, default \in {None, Some(<<"m", "-", "*">>), Some(N_zz)},
        timeout \in RunTimeouts, timeout_oneshot \in {None, Some(<<"0", "2">>)}}
RunKeys == 0..4
RunKeyPresses ==
    {Printable(ENTRY_NUMBER_TABLE[index + 1], TRUE) : index \in RunKeys}
    \cup {Printable("x", TRUE), Printable("x", FALSE), Escape, Special, NoKey}
RunEventResults == {Ok(0), Ok(1), Err}
RunCloseResults == {Ok(0), Err}

(***************************************************************************)
(* Ownership of contexts: the Rc of freeze, clone, fork and unload         *)
(* (context.rs), and the contexts run() holds up to the root mutation      *)
(* (main.rs, phases.rs, actions.rs, drivers.rs).                           *)
(***************************************************************************)

\* A context as its owners see it: root is its RootContext, parent its parent
\* (0: none); it is "owned" by a variable, "shared" behind an Rc, or "dropped";
\* handles counts the Rc of it that variables hold.
OwnNode(root, parent) ==
    [root |-> root, parent |-> parent, state |-> "owned", handles |-> 0]

Live(nodes, n) == nodes[n].state # "dropped"

\* The live contexts whose parent is n: each holds one Rc of n.
ForksOf(nodes, n) == {m \in 1..Len(nodes) : Live(nodes, m) /\ nodes[m].parent = n}

\* The slip of counting only the Rc that variables hold.
strong_count_of_handles(nodes, n) == nodes[n].handles

\* Rc::strong_count of the context n.
strong_count(nodes, n) == nodes[n].handles + Cardinality(ForksOf(nodes, n))

\* Rc::strong_count of the root r: every live context holds one Rc of its root.
root_strong_count(nodes, r) ==
    Cardinality({m \in 1..Len(nodes) : Live(nodes, m) /\ nodes[m].root = r})

\* Drop for Rc: a shared context without a strong reference is dropped, which
\* releases the Rc it holds of its parent.
RECURSIVE Reap(_)
Reap(nodes) ==
    LET gone == {n \in 1..Len(nodes) :
                    nodes[n].state = "shared" /\ strong_count(nodes, n) = 0}
    IN  IF gone = {} THEN nodes
        ELSE Reap([n \in 1..Len(nodes) |->
                      IF n \in gone THEN [nodes[n] EXCEPT !.state = "dropped"]
                      ELSE nodes[n]])

\* SproutContext::freeze: Rc::new.
Frozen(nodes, n) == [nodes EXCEPT ![n].state = "shared", ![n].handles = 1]

\* Rc::clone of a handle of n.
Cloned(nodes, n) == [nodes EXCEPT ![n].handles = @ + 1]

\* A variable that holds n goes out of scope.
Dropped(nodes, n) ==
    IF nodes[n].state = "owned" THEN Reap([nodes EXCEPT ![n].state = "dropped"])
    ELSE Reap([nodes EXCEPT ![n].handles = @ - 1])

\* SproutContext::fork: root is self.root.clone(), parent is Some(self.clone()).
Forked(nodes, n) == Append(nodes, OwnNode(nodes[n].root, n))

\* SproutContext::finalize: root is self.root.clone(), parent is None.
FinalizedOf(nodes, n) == Append(nodes, OwnNode(nodes[n].root, 0))

\* SproutContext::unload through one handle of n: Rc::into_inner gives the
\* context when this was the only strong reference and drops the handle
\* otherwise.
unload(nodes, n) ==
    IF strong_count(nodes, n) = 1
    THEN [result |-> "Some",
          nodes |-> [nodes EXCEPT ![n].state = "owned", ![n].handles = 0]]
    ELSE [result |-> "None", nodes |-> Dropped(nodes, n)]

\* SproutContext::root_mut on the owned context n: Rc::get_mut.
root_mut(nodes, n) ==
    IF root_strong_count(nodes, nodes[n].root) = 1 THEN "Some" ELSE "None"

\* The call last made and what it returned.
OwnCall(op, n, result) == [op |-> op, node |-> n, result |-> result]

\* Contexts made by a program that calls the operations in any order
\* (at = "free").
OwnNew ==
    /\ own.at = "free"
    /\ Len(own.nodes) < MaxOwn
    /\ own' = [own EXCEPT !.nodes = Append(@, OwnNode(Len(@) + 1, 0)),
                          !.last = OwnCall("new", Len(own.nodes) + 1, "")]

OwnFreeze(n) ==
    /\ own.at = "free"
    /\ own.nodes[n].state = "owned"
    /\ own' = [own EXCEPT !.nodes = Frozen(@, n), !.last = OwnCall("freeze", n, "")]

OwnClone(n) ==
    /\ own.at = "free"
    /\ own.nodes[n].state = "shared"
    /\ own.nodes[n].handles \in 1..(MaxRefs - 1)
    /\ own' = [own EXCEPT !.nodes = Cloned(@, n), !.last = OwnCall("clone", n, "")]

OwnDrop(n) ==
    /\ own.at = "free"
    /\ own.nodes[n].state = "owned" \/ own.nodes[n].handles > 0
    /\ own' = [own EXCEPT !.nodes = Dropped(@, n), !.last = OwnCall("drop", n, "")]

OwnFork(n) ==
    /\ own.at = "free"
    /\ own.nodes[n].state = "shared" /\ own.nodes[n].handles > 0
    /\ Len(own.nodes) < MaxOwn
    /\ own' = [own EXCEPT !.nodes = Forked(@, n), !.last = OwnCall("fork", n, "")]

OwnFinalize(n) ==
    /\ own.at = "free"
    /\ own.nodes[n].state = "owned" \/ own.nodes[n].handles > 0
    /\ Len(own.nodes) < MaxOwn
    /\ own' = [own EXCEPT !.nodes = FinalizedOf(@, n),
                          !.last = OwnCall("finalize", n, "")]

Unload(n) ==
    /\ own.at = "free"
    /\ own.nodes[n].state = "shared" /\ own.nodes[n].handles > 0
    /\ LET r == unload(own.nodes, n)
       IN  own' = [own EXCEPT !.nodes = r.nodes, !.last = OwnCall("unload", n, r.result)]

RootMut(n) ==
    /\ own.at = "free"
    /\ own.nodes[n].state = "owned"
    /\ own' = [own EXCEPT !.last = OwnCall("root_mut", n, root_mut(own.nodes, n))]

\* run() from the root context to the root mutation (at is the position):
\* SproutContext::new, insert and freeze.
RunContext ==
    /\ own.at = "start"
    /\ own' = [own EXCEPT !.nodes = Frozen(<<OwnNode(1, 0)>>, 1),
                          !.last = OwnCall("freeze", 1, ""), !.at = "early"]

\* phase(context.clone(), &config.phases.early) is entered.
EarlyPhase ==
    /\ own.at = "early"
    /\ own' = [own EXCEPT !.nodes = Cloned(@, 1), !.last = OwnCall("clone", 1, ""),
                          !.at = "phase"]

\* phase(): the fork of one item, frozen.
PhaseItem ==
    /\ own.at = "phase"
    /\ Len(own.nodes) < MaxOwn
    /\ own' = [own EXCEPT !.nodes = Frozen(Forked(@, 1), Len(@) + 1),
                          !.last = OwnCall("fork", 1, ""),
                          !.item = Len(own.nodes) + 1, !.at = "item"]

\* actions::execute(context.clone(), action): the finalized context, frozen,
\* and the clone of it the action is called with.
PhaseAction ==
    /\ own.at = "item"
    /\ Len(own.nodes) < MaxOwn
    /\ LET called == Cloned(own.nodes, own.item)
           n == Len(called) + 1
       IN  own' = [own EXCEPT
                      !.nodes = Cloned(Frozen(FinalizedOf(called, own.item), n), n),
                      !.last = OwnCall("finalize", own.item, ""),
                      !.action = n, !.at = "action"]

\* The action returns: the variables of actions::execute go out of scope; an
\* error goes up through phase() and run() with `?`, which drops every context.
ActionReturns(ok) ==
    /\ own.at = "action"
    /\ LET returned == Dropped(Dropped(Dropped(own.nodes, own.action), own.action),
                               own.item)
       IN  own' = [own EXCEPT
                      !.nodes = IF ok THEN returned
                                ELSE Dropped(Dropped(Dropped(returned, own.item), 1), 1),
                      !.last = OwnCall("drop", own.action, ""),
                      !.action = 0,
                      !.item = IF ok THEN @ ELSE 0,
                      !.at = IF ok THEN "item" ELSE "failed"]

\* The loop of phase() goes to the next item: the context of the item is
\* dropped.
PhaseItemEnds ==
    /\ own.at = "item"
    /\ own' = [own EXCEPT !.nodes = Dropped(@, own.item),
                          !.last = OwnCall("drop", own.item, ""),
                          !.item = 0, !.at = "phase"]

\* phase() returns Ok.
PhaseReturns ==
    /\ own.at = "phase"
    /\ own' = [own EXCEPT !.nodes = Dropped(@, 1), !.last = OwnCall("drop", 1, ""),
                          !.at = "drivers"]

\* drivers::load(context.clone(), &config.drivers) is entered.
DriversLoad ==
    /\ own.at = "drivers"
    /\ own' = [own EXCEPT !.nodes = Cloned(@, 1), !.last = OwnCall("clone", 1, ""),
                          !.at = "load"]

\* load_driver(context.clone(), driver) is entered for one driver.
LoadDriver ==
    /\ own.at = "load"
    /\ own' = [own EXCEPT !.nodes = Cloned(@, 1), !.last = OwnCall("clone", 1, ""),
                          !.at = "driver"]

\* load_driver returns: Ok to the loop of drivers::load, or with an error that
\* goes up through drivers::load and run().
DriverReturns(ok) ==
    /\ own.at = "driver"
    /\ own' = [own EXCEPT
                  !.nodes = IF ok THEN Dropped(@, 1)
                            ELSE Dropped(Dropped(Dropped(@, 1), 1), 1),
                  !.last = OwnCall("drop", 1, ""),
                  !.at = IF ok THEN "load" ELSE "failed"]

\* drivers::load returns: Ok (no driver, or all loaded and reconnected), or
\* with the error of reconnect().
LoadReturns(ok) ==
    /\ own.at = "load"
    /\ own' = [own EXCEPT
                  !.nodes = IF ok THEN Dropped(@, 1) ELSE Dropped(Dropped(@, 1), 1),
                  !.last = OwnCall("drop", 1, ""),
                  !.at = IF ok THEN "autoconfigure" ELSE "failed"]

\* autoconfigure::autoconfigure(&mut config), when enabled: it takes no
\* context; its error ends run().
Autoconfigure(ok) ==
    /\ own.at = "autoconfigure"
    /\ own' = [own EXCEPT
                  !.nodes = IF ok THEN @ ELSE Dropped(@, 1),
                  !.last = IF ok THEN @ ELSE OwnCall("drop", 1, ""),
                  !.at = IF ok THEN "unload" ELSE "failed"]

\* let Some(mut context) = context.unload() else { bail!(..) }
RunUnload ==
    /\ own.at = "unload"
    /\ LET r == unload(own.nodes, 1)
       IN  own' = [own EXCEPT !.nodes = r.nodes,
                              !.last = OwnCall("unload", 1, r.result),
                              !.at = IF r.result = "Some" THEN "root_mut"
                                     ELSE "violation"]

\* let Some(root) = context.root_mut() else { bail!(..) }
RunRootMut ==
    /\ own.at = "root_mut"
    /\ own' = [own EXCEPT
                  !.last = OwnCall("root_mut", 1, root_mut(own.nodes, 1)),
                  !.at = IF root_mut(own.nodes, 1) = "Some" THEN "refreeze"
                         ELSE "violation"]

(***************************************************************************)
(* The values of the variables a specification does not use.               *)
(***************************************************************************)
CtxIdle == ctxs = <<>> /\ last = NoCall /\ fin = NoFin
VerIdle == va = <<>> /\ vb = <<>> /\ ord = None
MatrixIdle == matrix = <<>> /\ combos = None
BlsIdle == listing = <<>> /\ sorted = None
RunIdle ==
    /\ cfg = <<>> /\ store = <<>> /\ entries = <<>> /\ loc = <<>>
    /\ pc = "idle" /\ selected = 0 /\ executed = <<>>
OwnIdle == own = <<>>

(***************************************************************************)
(* SpecCtx: the context tree under new, set, insert, freeze, fork, stamp   *)
(* and finalize, from the context SproutContext::new returns.              *)
(***************************************************************************)
InitCtx ==
    /\ ctxs = <<Node(0, <<>>, "new", 0)>>
    /\ last = NoCall
    /\ fin = NoFin
    /\ VerIdle /\ MatrixIdle /\ BlsIdle /\ RunIdle /\ OwnIdle

CtxFrame == UNCHANGED <<verVars, matrixVars, blsVars, runVars, ownVars>>

NextCtx ==
    \/ New /\ CtxFrame
    \/ \E c \in 1..Len(ctxs), key \in CtxKeys, value \in CtxVals :
          Set(c, key, value) /\ CtxFrame
    \/ \E c \in 1..Len(ctxs), values \in CtxMaps : Insert(c, values) /\ CtxFrame
    \/ \E c \in 1..Len(ctxs) : Freeze(c) /\ CtxFrame
    \/ \E c \in 1..Len(ctxs) : Fork(c) /\ CtxFrame
    \/ \E c \in 1..Len(ctxs), text \in CtxTexts : Stamp(c, text) /\ CtxFrame
    \/ \E c \in 1..Len(ctxs) : FinalizeCall(c) /\ CtxFrame
    \/ FinalizePass /\ CtxFrame

SpecCtx == InitCtx /\ [][NextCtx]_vars

(***************************************************************************)
(* SpecStamp: stamp and finalize on one context whose values are drawn     *)
(* from StampMaps, and on the contexts finalize returns.                   *)
(***************************************************************************)
StampKeySet == {K_a, K_b, K_ab}
StampVals ==
    {<<"X">>, <<"Y">>, <<"$", "a">>, <<"$", "b">>, <<"$", "a", "b">>, <<"$">>,
     <<"X", "$", "a">>}
\* The maps with the empty string as a key.
K_empty == <<>>
EmptyKeyMaps ==
    {[key \in {K_empty} |-> <<"X">>],
     [key \in {K_empty, K_a} |-> IF key = K_empty THEN <<"X">> ELSE <<"Y">>]}
StampMaps == UNION {[D -> StampVals] : D \in SUBSET StampKeySet} \cup EmptyKeyMaps
StampTexts ==
    {<<"$", "a", "b">>, <<"$", "a">>, <<"$", "b", "$", "a">>, <<"$", "c">>, <<"$">>}

InitStamp ==
    /\ \E values \in StampMaps :
          ctxs = <<[Node(0, values, "new", 0) EXCEPT !.frozen = TRUE]>>
    /\ last = NoCall
    /\ fin = NoFin
    /\ VerIdle /\ MatrixIdle /\ BlsIdle /\ RunIdle /\ OwnIdle

NextStamp ==
    \/ \E c \in 1..Len(ctxs), text \in StampTexts : Stamp(c, text) /\ CtxFrame
    \/ \E c \in 1..Len(ctxs) : FinalizeCall(c) /\ CtxFrame
    \/ FinalizePass /\ CtxFrame

SpecStamp == InitStamp /\ [][NextStamp]_vars

(***************************************************************************)
(* SpecVer: compare_versions called on two strings of VerStrings.          *)
(***************************************************************************)
InitVer ==
    /\ va \in VerStrings
    /\ vb \in VerStrings
    /\ ord = None
    /\ CtxIdle /\ MatrixIdle /\ BlsIdle /\ RunIdle /\ OwnIdle

NextVer == Compare /\ UNCHANGED <<ctxVars, matrixVars, blsVars, runVars, ownVars>>

SpecVer == InitVer /\ [][NextVer]_vars

(***************************************************************************)
(* SpecMatrix: the matrix generator called once on a matrix of MatrixMaps, *)
(* under a frozen context without values.                                  *)
(***************************************************************************)
InitMatrix ==
    /\ matrix \in MatrixMaps
    /\ combos = None
    /\ ctxs = <<[Node(0, <<>>, "new", 0) EXCEPT !.frozen = TRUE]>>
    /\ last = NoCall
    /\ fin = NoFin
    /\ VerIdle /\ BlsIdle /\ RunIdle /\ OwnIdle

NextMatrix ==
    /\ Generate(1)
    /\ UNCHANGED <<verVars, blsVars, cfg, store, loc, pc, selected, executed, ownVars>>

SpecMatrix == InitMatrix /\ [][NextMatrix]_vars

(***************************************************************************)
(* SpecBls: the BLS generator called once on a directory of BlsListings,   *)
(* under a frozen context without values.                                  *)
(***************************************************************************)
InitBls ==
    /\ listing \in BlsListings
    /\ sorted = None
    /\ ctxs = <<[Node(0, <<>>, "new", 0) EXCEPT !.frozen = TRUE]>>
    /\ last = NoCall
    /\ fin = NoFin
    /\ VerIdle /\ MatrixIdle /\ RunIdle /\ OwnIdle

NextBls ==
    /\ GenerateBls(1)
    /\ UNCHANGED <<verVars, matrixVars, cfg, store, loc, pc, selected, executed, ownVars>>

SpecBls == InitBls /\ [][NextBls]_vars

(***************************************************************************)
(* SpecRun: one run of the boot sequence from an option set, a             *)
(* configuration and a persistent store of the Run sets.                   *)
(***************************************************************************)
InitRun ==
    /\ cfg \in [options : RunOptions, config : RunConfigurations]
    /\ store \in RunStores
    /\ (cfg.config \in OtherConfigurations \/ store.LoaderEntryDefault = Some(N_zz)) =>
           store.LoaderConfigTimeout = None /\ store.LoaderConfigTimeoutOneShot = None
    /\ entries = <<>>
    /\ loc = NoLocals
    /\ pc = "start"
    /\ selected = 0
    /\ executed = <<>>
    /\ CtxIdle /\ VerIdle /\ MatrixIdle /\ BlsIdle /\ OwnIdle

RunFrame == UNCHANGED <<verVars, matrixVars, blsVars, ownVars>>

NextRun ==
    \/ Prepare /\ RunFrame
    \/ BuildEntries /\ RunFrame
    \/ ResolveEntries /\ RunFrame
    \/ SetEntries /\ RunFrame
    \/ LatePhase /\ RunFrame
    \/ ReadInterface /\ RunFrame
    \/ Arbitrate /\ RunFrame
    \/ SelectForced /\ RunFrame
    \/ MenuSelect /\ RunFrame
    \/ MenuDisplay /\ RunFrame
    \/ \E event_result \in RunEventResults, close_event_result \in RunCloseResults,
          key \in RunKeyPresses :
            MenuRead(event_result, close_event_result, key) /\ RunFrame
    \/ MenuReadError /\ RunFrame
    \/ SetSelectedEntry /\ RunFrame
    \/ ExecuteAction /\ RunFrame

SpecRun == InitRun /\ [][NextRun]_vars

(***************************************************************************)
(* SpecMenu: the run as a sequential program that takes its next step, on  *)
(* a firmware whose timer event triggers when the armed time has passed    *)
(* and no other event ended the wait. The keys are the operator's: no      *)
(* fairness holds for them.                                                *)
(***************************************************************************)
MenuOptions ==
    [boot : {None, Some(N_a)}, force_menu : BOOLEAN, menu_timeout : {None, Some(3)}]
MenuConfigurations ==
    {RootConfiguration(default_entry, menu_timeout, RunEntries, RunGenerators) :
        default_entry \in {None, Some(N_b)}, menu_timeout \in {0, 5}}
    \cup {RootConfiguration(None, 5, <<>>, <<>>)}
MenuStores ==
    {Store(None, None, timeout, None) : timeout \in {None, Some(S_menu_hidden)}}

InitMenu ==
    /\ cfg \in [options : MenuOptions, config : MenuConfigurations]
    /\ store \in MenuStores
    /\ entries = <<>>
    /\ loc = NoLocals
    /\ pc = "start"
    /\ selected = 0
    /\ executed = <<>>
    /\ CtxIdle /\ VerIdle /\ MatrixIdle /\ BlsIdle /\ OwnIdle

\* wait_for_event returns the index of the timer event, and close_event
\* succeeds; with a timeout of zero, the turn that breaks with Exit unread.
TimerFires == \E key \in RunKeyPresses : MenuRead(Ok(0), Ok(0), key) /\ RunFrame

\* wait_for_event returns the index of the key event.
KeyArrives ==
    /\ loc.menu_timeout # 0
    /\ \E close_event_result \in RunCloseResults, key \in RunKeyPresses :
           MenuRead(Ok(1), close_event_result, key) /\ RunFrame

SpecMenu ==
    /\ InitMenu
    /\ [][NextRun]_vars
    /\ WF_vars(MenuDisplay /\ RunFrame)
    /\ WF_vars(TimerFires)

(***************************************************************************)
(* SpecOwn: the contexts of a program that makes, freezes, clones, forks,  *)
(* finalizes, drops and unloads contexts in any order, and the contexts of *)
(* run() from SproutContext::new to the root mutation.                     *)
(***************************************************************************)
InitOwn ==
    /\ own \in [nodes : {<<>>}, last : {OwnCall("none", 0, "")},
                at : {"free", "start"}, item : {0}, action : {0}]
    /\ CtxIdle /\ VerIdle /\ MatrixIdle /\ BlsIdle /\ RunIdle

OwnFrame == UNCHANGED <<ctxVars, verVars, matrixVars, blsVars, runVars>>

NextOwn ==
    \/ OwnNew /\ OwnFrame
    \/ \E n \in 1..Len(own.nodes) : OwnFreeze(n) /\ OwnFrame
    \/ \E n \in 1..Len(own.nodes) : OwnClone(n) /\ OwnFrame
    \/ \E n \in 1..Len(own.nodes) : OwnDrop(n) /\ OwnFrame
    \/ \E n \in 1..Len(own.nodes) : OwnFork(n) /\ OwnFrame
    \/ \E n \in 1..Len(own.nodes) : OwnFinalize(n) /\ OwnFrame
    \/ \E n \in 1..Len(own.nodes) : Unload(n) /\ OwnFrame
    \/ \E n \in 1..Len(own.nodes) : RootMut(n) /\ OwnFrame
    \/ RunContext /\ OwnFrame
    \/ EarlyPhase /\ OwnFrame
    \/ PhaseItem /\ OwnFrame
    \/ PhaseAction /\ OwnFrame
    \/ \E ok \in BOOLEAN : ActionReturns(ok) /\ OwnFrame
    \/ PhaseItemEnds /\ OwnFrame
    \/ PhaseReturns /\ OwnFrame
    \/ DriversLoad /\ OwnFrame
    \/ LoadDriver /\ OwnFrame
    \/ \E ok \in BOOLEAN : DriverReturns(ok) /\ OwnFrame
    \/ \E ok \in BOOLEAN : LoadReturns(ok) /\ OwnFrame
    \/ \E ok \in BOOLEAN : Autoconfigure(ok) /\ OwnFrame
    \/ RunUnload /\ OwnFrame
    \/ RunRootMut /\ OwnFrame

SpecOwn == InitOwn /\ [][NextOwn]_vars


(***************************************************************************)
(* Claims about the context engine.                                        *)
(***************************************************************************)

\* The values a = "$b", b = "$a".
CycleAB == [key \in {K_a, K_b} |-> IF key = K_a THEN <<"$", "b">> ELSE <<"$", "a">>]

\* C1 (as claimed): a finalize call on a context whose visible values are
\* a = "$b", b = "$a" returns the error; it does not return a context.
C1_CycleIsAnError ==
    (last.op = "finalize" /\ all_values(ctxs, last.ctx) = CycleAB)
        => last.status = "err"

\* C2: finalize is idempotent: a finalize call on a context that a finalize
\* call returned succeeds, and the context it returns has the same values.
C2_FinalizeIdempotent ==
    (last.op = "finalize" /\ ctxs[last.ctx].origin = "finalize")
        => /\ last.status = "ok"
           /\ ctxs[last.node].values = ctxs[last.ctx].values
           /\ ctxs[last.node].parent = 0

\* The second finalize has returned, on the result of a first finalize that had
\* changed the values it was given.
C2_Witness ==
    /\ last.op = "finalize" /\ last.status = "ok"
    /\ ctxs[last.ctx].origin = "finalize"
    /\ all_values(ctxs, ctxs[last.ctx].src) # ctxs[last.ctx].values

NoDollar(s) == \A i \in 1..Len(s) : s[i] # "$"

ProperPrefix(p, s) == starts_with(s, p) /\ p # s /\ p # <<>>

\* C3: keys are applied longest first: when a visible key is a proper prefix of
\* another visible key, stamping "$" followed by the longer key yields the longer
\* key's value (a value without "$"), not the shorter key's value followed by
\* the leftover characters.
C3_LongestKeyFirst ==
    last.op = "stamp" =>
        LET values == all_values(ctxs, last.ctx) IN
        \A short \in DOMAIN values, long \in DOMAIN values :
            ( /\ ProperPrefix(short, long)
              /\ last.text = <<"$">> \o long
              /\ NoDollar(values[long]) )
                => last.result = values[long]

\* stamp("$ab") was called with a = "X" and ab = "Y" visible.
C3_Witness ==
    /\ last.op = "stamp" /\ last.text = <<"$", "a", "b">>
    /\ K_a \in DOMAIN ctxs[last.ctx].values
    /\ K_ab \in DOMAIN ctxs[last.ctx].values
    /\ ctxs[last.ctx].values[K_a] = <<"X">>
    /\ ctxs[last.ctx].values[K_ab] = <<"Y">>
    /\ last.result = <<"Y">>

\* The nodes from c up to its root, c first.
RECURSIVE ParentChain(_, _)
ParentChain(cs, c) ==
    IF cs[c].parent = 0 THEN <<c>> ELSE <<c>> \o ParentChain(cs, cs[c].parent)

\* The value of key in the nearest node of c's parent chain that defines it.
NearestDefinition(cs, c, key) ==
    LET chain == ParentChain(cs, c)
        defining == {i \in 1..Len(chain) : key \in DOMAIN cs[chain[i]].values}
    IN  IF defining = {} THEN None
        ELSE Some(cs[chain[CHOOSE i \in defining : \A j \in defining : i <= j]].values[key])

ProbeKeys == {K_a, K_b, K_ab}

Shadowing ==
    \A c \in 1..Len(ctxs) :
        LET keys == all_keys(ctxs, c)
            values == all_values(ctxs, c)
        IN  /\ \A key \in ProbeKeys : get(ctxs, c, key) = NearestDefinition(ctxs, c, key)
            /\ \A i, j \in 1..Len(keys) : keys[i] = keys[j] => i = j
            /\ Range(keys) = {key \in ProbeKeys : NearestDefinition(ctxs, c, key) # None}
            /\ DOMAIN values = Range(keys)
            /\ \A key \in DOMAIN values : Some(values[key]) = get(ctxs, c, key)

\* A step that changes the local values of one node changes what get returns on
\* no other node.
ForkIsolation ==
    \A c \in 1..Len(ctxs) :
        ctxs'[c].values # ctxs[c].values =>
            \A other \in (1..Len(ctxs)) \ {c} : \A key \in ProbeKeys :
                get(ctxs', other, key) = get(ctxs, other, key)

\* C4: get returns the value of the nearest node of the parent chain that
\* defines the key, all_values has one entry per key of all_keys and it is what
\* get returns, and set / insert on a node changes get on no other node.
C4_ShadowingAndIsolation == []Shadowing /\ [][ForkIsolation]_vars

\* A fork with a = "2" whose parent has a = "1", and a sibling fork without a.
C4_Witness ==
    \E p, c, d \in 1..Len(ctxs) :
        /\ c # d
        /\ ctxs[c].parent = p /\ ctxs[d].parent = p
        /\ get(ctxs, p, K_a) = Some(<<"1">>)
        /\ get(ctxs, c, K_a) = Some(<<"2">>)
        /\ get(ctxs, d, K_a) = Some(<<"1">>)
        /\ K_a \notin DOMAIN ctxs[d].values

(***************************************************************************)
(* Claims about the version comparator.                                    *)
(***************************************************************************)

\* C5 (as claimed): a tilde suffix is a pre-release: v followed by "~" and
\* any suffix compares Less than v.
C5_TildeIsPreRelease ==
    (ord # None /\ vb # <<>> /\ starts_with(va, vb \o <<"~">>)) => ord = Some(Less)

AllIn(s, class) == s # <<>> /\ \A i \in 1..Len(s) : s[i] \in class

\* The splits of va and vb into a common prefix and two rests.
CommonSplits ==
    {k \in 0..Len(va) : k <= Len(vb) /\ SubSeq(va, 1, k) = SubSeq(vb, 1, k)}

RestA(k) == SubSeq(va, k + 1, Len(va))
RestB(k) == SubSeq(vb, k + 1, Len(vb))

\* After a common prefix that does not end in a digit, two digit runs compare
\* as the numbers they write, leading zeros ignored.
DigitRunsAreNumbers ==
    \A k \in CommonSplits :
        ( /\ AllIn(RestA(k), Digits) /\ AllIn(RestB(k), Digits)
          /\ (k = 0 \/ va[k] \notin Digits) )
            => ord = Some(IntCmp(Decimal(RestA(k)), Decimal(RestB(k))))

\* After a common prefix that does not end in a letter, two letter runs compare
\* in byte order, in which every uppercase letter is below every lowercase one.
LetterRunsAreLexicographic ==
    \A k \in CommonSplits :
        ( /\ AllIn(RestA(k), Uppercase \cup Lowercase)
          /\ AllIn(RestB(k), Uppercase \cup Lowercase)
          /\ (k = 0 \/ va[k] \notin Uppercase \cup Lowercase) )
            => ord = Some(StrCmp(RestA(k), RestB(k)))

\* s without its characters outside [A-Za-z0-9.~^-].
RECURSIVE Strip(_)
Strip(s) ==
    IF s = <<>> THEN <<>>
    ELSE IF is_valid_char(s[1]) THEN <<s[1]>> \o Strip(Tail(s))
    ELSE Strip(Tail(s))

SameRunClass(c, d) ==
    \/ c \in Digits /\ d \in Digits
    \/ is_ascii_alphabetic(c) /\ is_ascii_alphabetic(d)

\* s has characters outside the set between two digits or between two letters.
SplitsRun(s) ==
    \E i, j \in 1..Len(s) :
        /\ i + 1 < j
        /\ \A m \in (i + 1)..(j - 1) : ~is_valid_char(s[m])
        /\ SameRunClass(s[i], s[j])

\* C6 (as claimed): digit runs compare as numbers, letter runs
\* lexicographically with uppercase below lowercase, and the characters outside
\* [A-Za-z0-9.~^-] do not affect the result.
C6_InvalidCharactersAbsent ==
    ord # None =>
        /\ DigitRunsAreNumbers
        /\ LetterRunsAreLexicographic
        /\ ord = Some(compare_versions(Strip(va), Strip(vb)))

\* C6 (amended): digit runs compare as numbers, letter runs lexicographically
\* with uppercase below lowercase, and the characters outside [A-Za-z0-9.~^-]
\* do not affect the result unless they stand between two digits or between
\* two letters, where they end the run.
C6_RunsAndInvalidCharacters ==
    ord # None =>
        /\ DigitRunsAreNumbers
        /\ LetterRunsAreLexicographic
        /\ (~SplitsRun(va) /\ ~SplitsRun(vb))
               => ord = Some(compare_versions(Strip(va), Strip(vb)))

\* "_1" was compared with "01": an invalid character and a leading zero.
C6_Witness ==
    /\ va = <<"_", "1">> /\ vb = <<"0", "1">> /\ ord = Some(Equal)

\* compare_versions on every pair of VerStrings.
VerTable == [p \in VerStrings \X VerStrings |-> compare_versions(p[1], p[2])]

\* C7: compare_versions is a total order on the strings: it returns for every
\* pair, a string equals itself, swapping the arguments reverses the result, and
\* a <= b and b <= c imply a <= c.
C7_TotalOrder ==
    ord # None =>
        /\ ord[1] \in {Less, Equal, Greater}
        /\ va = vb => ord = Some(Equal)
        /\ ord = Some(reverse(VerTable[<<vb, va>>]))
        /\ \A vc \in VerStrings :
              (ord[1] <= Equal /\ VerTable[<<vb, vc>>] <= Equal)
                  => VerTable[<<va, vc>>] <= Equal

\* A letter run met a digit run at the same position, and a third string is
\* above both.
C7_Witness ==
    /\ va = <<"a", "1">> /\ vb = <<"1", "a">> /\ ord = Some(Less)
    /\ \E vc \in VerStrings : VerTable[<<vb, vc>>] = Less /\ VerTable[<<va, vc>>] = Less

(***************************************************************************)
(* Claims about the generators.                                            *)
(***************************************************************************)

\* The product of the lengths of the arrays of the keys.
RECURSIVE LengthProduct(_)
LengthProduct(keys) ==
    IF keys = <<>> THEN 1 ELSE Len(matrix[Head(keys)]) * LengthProduct(Tail(keys))

MatrixKeyOrder == BTreeOrder(DOMAIN matrix)

\* The combination at position i (from 0) of the product in which the first
\* key in ascending order varies slowest and each array is read in declared
\* order.
CombinationAt(i) ==
    [key \in DOMAIN matrix |->
        LET j == CHOOSE n \in 1..Len(MatrixKeyOrder) : MatrixKeyOrder[n] = key
            stride == LengthProduct(SubSeq(MatrixKeyOrder, j + 1, Len(MatrixKeyOrder)))
        IN  matrix[key][((i \div stride) % Len(matrix[key])) + 1]]

\* Every assignment of one declared value to every declared key.
Choices ==
    {f \in [DOMAIN matrix -> MatrixValues] :
        \A key \in DOMAIN matrix : f[key] \in Range(matrix[key])}

CountIsProduct(out) ==
    Len(out) = IF DOMAIN matrix = {} THEN 0 ELSE LengthProduct(MatrixKeyOrder)

FullProduct(out) ==
    /\ \A i \in 1..Len(out) : out[i] \in Choices
    /\ DOMAIN matrix # {} => \A f \in Choices : \E i \in 1..Len(out) : out[i] = f

NoRepeat(out) == \A i, j \in 1..Len(out) : i # j => out[i] # out[j]

DeclaredOrder(out) == \A i \in 1..Len(out) : out[i] = CombinationAt(i - 1)

ExampleXY ==
    DOMAIN matrix = {K_x, K_y} /\ matrix[K_x] = << <<"a">>, <<"b">> >>
                               /\ matrix[K_y] = << <<"c">> >>

ExampleXYResult(out) ==
    ExampleXY =>
        out = << [key \in {K_x, K_y} |-> IF key = K_x THEN <<"a">> ELSE <<"c">>],
                 [key \in {K_x, K_y} |-> IF key = K_x THEN <<"b">> ELSE <<"c">>] >>

\* No array lists one value twice.
DistinctValues ==
    \A key \in DOMAIN matrix :
        \A i, j \in 1..Len(matrix[key]) : i # j => matrix[key][i] # matrix[key][j]

\* The entries of the generator are those of the list generator for the
\* combinations: one entry per combination, named by its position, whose
\* context holds the combination.
OneEntryPerCombination(out) ==
    /\ Len(entries) = Len(out)
    /\ \A i \in 1..Len(out) :
          /\ entries[i].name = to_string(i - 1)
          /\ all_values(ctxs, entries[i].context) = out[i]

\* C8 (as claimed): the matrix generator produces the full cartesian product:
\* the count is the product of the array lengths, every combination gives each
\* declared key one of its declared values, no combination repeats, the order
\* is keys ascending and values as declared, an empty map yields nothing, and
\* {x:[a,b], y:[c]} yields {x:a,y:c} then {x:b,y:c}.
C8_ProductWithoutRepeats ==
    combos # None =>
        /\ CountIsProduct(combos[1])
        /\ FullProduct(combos[1])
        /\ NoRepeat(combos[1])
        /\ DeclaredOrder(combos[1])
        /\ ExampleXYResult(combos[1])
        /\ OneEntryPerCombination(combos[1])

\* C8 (amended): as above, but no combination repeats provided that no array
\* lists one value twice; an array that does makes the combinations with that
\* value appear once per listing.
C8_MatrixProduct ==
    combos # None =>
        /\ CountIsProduct(combos[1])
        /\ FullProduct(combos[1])
        /\ DistinctValues => NoRepeat(combos[1])
        /\ DeclaredOrder(combos[1])
        /\ ExampleXYResult(combos[1])
        /\ OneEntryPerCombination(combos[1])

\* The generator ran on {x:[a,b], y:[c]}.
C8_Witness ==
    /\ ExampleXY
    /\ combos # None
    /\ Len(combos[1]) = 2
    /\ Len(entries) = 2

\* The file stems of the items the generator keeps, in directory order.
RECURSIVE KeptNames(_)
KeptNames(items) ==
    IF items = <<>> THEN <<>>
    ELSE LET f == Head(items).file_name
             stem == SubSeq(f, 1, Len(f) - 5)
         IN  IF /\ Head(items).is_regular_file
                /\ Len(f) > 5
                /\ to_lowercase(SubSeq(f, Len(f) - 4, Len(f))) = DotConf
                /\ Head(items).entry.linux_or_efi
             THEN <<stem>> \o KeptNames(Tail(items))
             ELSE KeptNames(Tail(items))

AbsentFirst(a, b) == a = None /\ b # None
Ascending(a, b) == a # None /\ b # None /\ StrCmp(a[1], b[1]) = Less

\* a may stand before b: the four levels, each one deciding only on a tie of
\* the levels before it.
MayPrecede(a, b) ==
    LET version == compare_versions_optional(a.bls.version, b.bls.version)
        stem == compare_versions(a.boot.name, b.boot.name)
    IN  \/ AbsentFirst(a.bls.sort_key, b.bls.sort_key)
        \/ Ascending(a.bls.sort_key, b.bls.sort_key)
        \/ /\ a.bls.sort_key = b.bls.sort_key
           /\ \/ AbsentFirst(a.bls.machine_id, b.bls.machine_id)
              \/ Ascending(a.bls.machine_id, b.bls.machine_id)
              \/ /\ a.bls.machine_id = b.bls.machine_id
                 /\ \/ version = Greater
                    \/ version = Equal /\ stem \in {Greater, Equal}

SixBeforeFive(out) ==
    \A i, j \in 1..Len(out) :
        ( /\ out[i].bls.sort_key = out[j].bls.sort_key
          /\ out[i].bls.machine_id = out[j].bls.machine_id
          /\ out[i].bls.version = Some(<<"6">>)
          /\ out[j].bls.version = Some(<<"5">>) ) => i < j

\* C9: the entries the BLS generator returns are the valid entries of the
\* directory, ordered by sort-key ascending with absent first, then machine-id
\* ascending with absent first, then version descending by the version
\* comparator, then file stem descending; of two entries with the same sort-key
\* and machine-id and the versions "5" and "6", the "6" entry comes first.
C9_FourLevelOrder ==
    sorted # None =>
        /\ \A i, j \in 1..Len(sorted[1]) : i < j => MayPrecede(sorted[1][i], sorted[1][j])
        /\ SixBeforeFive(sorted[1])
        /\ {sorted[1][i].boot.name : i \in 1..Len(sorted[1])} = Range(KeptNames(listing))
        /\ Len(sorted[1]) = Len(KeptNames(listing))
        /\ entries = [i \in 1..Len(sorted[1]) |-> sorted[1][i].boot]

\* The directory listed a "5" entry before a "6" entry with the same sort-key
\* and machine-id, and the generator returned the "6" entry first.
C9_Witness ==
    /\ sorted # None
    /\ Len(listing) = 2 /\ Len(sorted[1]) = 2
    /\ listing[1].entry.version = Some(<<"5">>)
    /\ listing[2].entry.version = Some(<<"6">>)
    /\ listing[1].entry.sort_key = listing[2].entry.sort_key
    /\ listing[1].entry.machine_id = listing[2].entry.machine_id
    /\ sorted[1][1].bls.version = Some(<<"6">>)

(***************************************************************************)
(* Claims about the selection of run().                                    *)
(***************************************************************************)

\* The actions run() executed for entries, in order.
ActionEvents == SelectSeq(executed, LAMBDA e : e.kind = "action")

\* The actions of the entry at position i, stamped with its context.
StampedActions(i) ==
    [k \in 1..Len(entries[i].declaration.actions) |->
        Event("action", "", i,
              stamp(ctxs, entries[i].context, entries[i].declaration.actions[k]))]

\* The store held a one-shot entry when it was read, --boot names another
\* entry, and neither --force-menu nor the timeout policy menu-force is there.
OneShotAgainstBoot ==
    /\ pc \notin {"start", "entries", "resolve", "publish", "late", "interface"}
    /\ loc.bootloader_interface_oneshot_entry # None
    /\ cfg.options.boot # None
    /\ find(cfg.options.boot[1], entries)
           # find(loc.bootloader_interface_oneshot_entry[1], entries)
    /\ ~cfg.options.force_menu
    /\ loc.bootloader_interface_timeout.kind # "MenuForce"

\* C10: when the store holds a one-shot entry and --boot names a different
\* entry, with no force-menu directive, the entry selected is the one-shot
\* entry and the actions executed are its actions: the menu is not run and no
\* action of another entry is executed.
C10_OneShotBeatsBoot ==
    OneShotAgainstBoot =>
        LET oneshot == find(loc.bootloader_interface_oneshot_entry[1], entries) IN
        /\ store.LoaderTimeMenuUSec = None
        /\ pc \in {"selected", "execute", "done"} => selected = oneshot /\ oneshot # 0
        /\ \A k \in 1..Len(ActionEvents) : ActionEvents[k].entry = oneshot
        /\ pc = "done" => ActionEvents = StampedActions(oneshot)

\* The run ended after the store held the one-shot entry "m-1" and --boot
\* named "a": the entry "m-1" was selected and its action executed.
C10_Witness ==
    /\ OneShotAgainstBoot
    /\ pc = "done"
    /\ cfg.options.boot = Some(N_a)
    /\ loc.bootloader_interface_oneshot_entry = Some(<<"m", "-", "1">>)
    /\ entries[selected].name = <<"m", "-", "1">>
    /\ ActionEvents # <<>>
    /\ store.LoaderEntrySelected = Some(<<"m", "-", "1">>)

\* run() has read the bootloader interface and applied its directives.
Arbitrated ==
    pc \in {"select", "selected", "menu_display", "menu_wait", "execute", "done"}

\* C11: whenever the store held a one-shot entry at startup, that entry is
\* the one selected and the menu is never entered, also under --force-menu or
\* the timeout policy menu-force.
C11_OneShotHighestPrecedence ==
    (Arbitrated /\ loc.bootloader_interface_oneshot_entry # None) =>
        /\ store.LoaderTimeMenuUSec = None
        /\ pc \notin {"menu_display", "menu_wait"}
        /\ pc \in {"selected", "execute", "done"} =>
               selected = find(loc.bootloader_interface_oneshot_entry[1], entries)

\* The effective menu timeout by the precedence operator, then external
\* policy, then configuration.
OperatorPolicyConfiguration ==
    LET policy == loc.bootloader_interface_timeout
    IN  IF cfg.options.menu_timeout # None THEN cfg.options.menu_timeout[1]
        ELSE IF policy.kind \in {"MenuHidden", "MenuDisabled"} THEN 0
        ELSE IF policy.kind = "Timeout" THEN policy.secs
        ELSE cfg.config.options.menu_timeout

\* C12: the menu timeout run() hands to the menu is the operator's
\* --menu-timeout when there is one, else what the external timeout policy
\* gives (zero for hidden and disabled, the seconds of an explicit value),
\* else the configuration's default.
C12_OperatorTimeoutFirst ==
    Arbitrated => loc.menu_timeout = OperatorPolicyConfiguration

\* The positions of the entries that carry the default flag.
DefaultMarked == {i \in 1..Len(entries) : entries[i].default}

\* The positions of the entries the configured default selector matches.
SelectorMatches ==
    IF cfg.config.options.default_entry = None THEN {}
    ELSE {i \in 1..Len(entries) :
             is_match(entries[i], cfg.config.options.default_entry[1])}

\* C13: once run() has resolved a non-empty entry list and settled the
\* default marks (no default entry coming from the bootloader interface),
\* exactly one entry carries the default flag: an entry the configured
\* selector matches when it matches any, the first entry otherwise.
C13_ExactlyOneDefault ==
    (Arbitrated /\ entries # <<>> /\ loc.bootloader_interface_default_entry = None) =>
        /\ Cardinality(DefaultMarked) = 1
        /\ SelectorMatches # {} => DefaultMarked \subseteq SelectorMatches
        /\ SelectorMatches = {} => DefaultMarked = {1}

\* The names of the final entry list.
EntryNames == [i \in 1..Len(entries) |-> entries[i].name]

\* C14: in the entry list run() publishes and selects from, no two entries
\* have the same name.
C14_UniqueNames ==
    pc \in {"publish", "late", "interface", "arbitrate", "select", "selected",
            "menu_display", "menu_wait", "execute", "done"} =>
        \A i, j \in 1..Len(entries) : EntryNames[i] = EntryNames[j] => i = j

\* run() has resolved the entry list: every entry has its finalized context.
Resolved ==
    pc \in {"publish", "late", "interface", "arbitrate", "select", "selected",
            "menu_display", "menu_wait", "execute", "done"}

\* The positions of the entries that come from generators: the static
\* entries stand first.
GeneratedPositions == (Cardinality(DOMAIN cfg.config.entries) + 1)..Len(entries)

\* The file stems of the directory of a BLS configuration.
Stems(bls) ==
    {SubSeq(bls.items[k].file_name, 1, Len(bls.items[k].file_name) - Len(DotConf)) :
        k \in 1..Len(bls.items)}

\* The entry comes from the generator named G: it has the title of G's
\* template, and G-<index> as its name, or, pin-named, the stem of a file.
ProducedBy(entry, G) ==
    LET generator == cfg.config.generators[G]
    IN  IF generator.matrix # None
        THEN /\ entry.declaration.title = generator.matrix[1].entry.title
             /\ ~entry.pin_name
             /\ \E index \in 0..Len(entries) :
                    entry.name = G \o <<"-">> \o to_string(index)
        ELSE IF generator.bls # None
        THEN /\ entry.declaration.title = generator.bls[1].entry.title
             /\ entry.pin_name
             /\ entry.name \in Stems(generator.bls[1])
        ELSE FALSE

\* The title is the title of the template with the values of the entry's
\* context, which finalize returned.
TitleIsStamped(entry) ==
    /\ ctxs[entry.context].origin = "finalize"
    /\ ctxs[entry.context].parent = 0
    /\ entry.title = stamp(ctxs, entry.context, entry.declaration.title)

S_boot_0 == <<"b", "o", "o", "t", "-", "0">>
S_boot_1 == <<"b", "o", "o", "t", "-", "1">>
S_Run_a == <<"R", "u", "n", " ", "a">>
S_Run_b == <<"R", "u", "n", " ", "b">>

\* The configuration with the one generator "boot".
BootExample == cfg.config.entries = <<>> /\ cfg.config.generators = BootGenerators

\* C15: in the resolved entry list every entry of a generator G is named
\* G-<index>, or keeps its name when it is pin-named, and its title is the
\* template title stamped with its finalized context; the generator "boot" with
\* {mode: [a, b]} and the title "Run $mode" gives boot-0 "Run a" and boot-1
\* "Run b", in this order and nothing else.
C15_GeneratedNamesAndTitles ==
    Resolved =>
        /\ \A i \in GeneratedPositions :
               /\ \E G \in DOMAIN cfg.config.generators : ProducedBy(entries[i], G)
               /\ TitleIsStamped(entries[i])
        /\ BootExample =>
               /\ EntryNames = <<S_boot_0, S_boot_1>>
               /\ [i \in 1..Len(entries) |-> entries[i].title] = <<S_Run_a, S_Run_b>>
               /\ \A i \in 1..Len(entries) : ~entries[i].pin_name

\* The entry list of the generator "boot" is published.
C15_Witness ==
    /\ BootExample
    /\ pc = "late"
    /\ store.LoaderEntries = Some(S_boot_0 \o <<NUL>> \o S_boot_1 \o <<NUL>>)
    /\ entries[2].title = S_Run_b

\* Some generator of the configuration returns an error: its declaration
\* configures none of matrix, bls and list.
GeneratorFails ==
    \E G \in DOMAIN cfg.config.generators :
        LET generator == cfg.config.generators[G]
        IN  generator.matrix = None /\ generator.bls = None /\ generator.list = None

\* C16: when a generator returns an error, run() ends in the error at the
\* generators: no entry list is written to the store, the menu is not entered,
\* no entry is selected and no action of an entry is executed, although the
\* static entries and the generators before it gave entries.
C16_GeneratorErrorAborts ==
    GeneratorFails =>
        /\ pc \in {"start", "entries", "error"}
        /\ entries = <<>>
        /\ store.LoaderEntries = None
        /\ store.LoaderTimeMenuUSec = None
        /\ store.LoaderEntrySelected = None
        /\ selected = 0
        /\ ActionEvents = <<>>

\* run() ended in error at the generator "z", after the static entries a and b
\* and the two entries of the generator "m" were made (their contexts exist).
C16_Witness ==
    /\ cfg.config.generators = FailingGenerators
    /\ DOMAIN cfg.config.entries = {N_a, N_b}
    /\ pc = "error"
    /\ \E c, d \in 1..Len(ctxs) :
           /\ c # d
           /\ ctxs[c].values = (K_x :> <<"a">>)
           /\ ctxs[d].values = (K_x :> <<"b">>)

(***************************************************************************)
(* Claims about the menu.                                                  *)
(***************************************************************************)

\* C17: when wait_for_event succeeded, read() returns the operation of the
\* event (Timeout for the timer, the operation of the key for a key that could
\* be read) whether or not close_event failed, and read() returns the error of
\* close_event only when wait_for_event failed too.
C17_CloseFailureNeverMasks ==
    loc.read # None =>
        LET call == loc.read[1] IN
        /\ (~call.event_result.is_err /\ call.event_result.index = 0) =>
               call.returned = Returned(TimeoutOp)
        /\ (~call.event_result.is_err /\ call.event_result.index = 1
               /\ call.key.kind # "None") =>
               call.returned.status = "ok"
        /\ call.returned.error = "unable to close timer event" =>
               call.event_result.is_err

(***************************************************************************)
(* Claims about the order of the phases.                                   *)
(***************************************************************************)

\* The positions in `executed` of the events of a kind and phase.
EventsOf(kind, phase) ==
    {k \in 1..Len(executed) : executed[k].kind = kind /\ executed[k].phase = phase}

\* Every event of the first set stands before every event of the second.
AllBefore(first, second) == \A i \in first, j \in second : i < j

\* C19: the late phase runs only once the entry to boot has been chosen and
\* before every action of that entry; the early phase runs before the drivers
\* are loaded, the startup phase after that and before the menu prints the
\* entries.
C19_PhaseOrder ==
    /\ EventsOf("phase", "late") # {} => selected # 0
    /\ AllBefore(EventsOf("phase", "late"), EventsOf("action", ""))
    /\ AllBefore(EventsOf("phase", "early"), EventsOf("drivers", ""))
    /\ AllBefore(EventsOf("drivers", ""), EventsOf("phase", "startup"))
    /\ loc # <<>> /\ loc.displays > 0 => EventsOf("phase", "startup") # {}
    /\ EventsOf("action", "") # {} => EventsOf("phase", "late") # {}

(***************************************************************************)
(* Claims about entries that are not found.                                *)
(***************************************************************************)

\* No entry of the list has the name or the title `needle` (or, for a needle
\* that ends in "*", starts with what is before it), and no entry has the
\* index `needle`.
MatchesNone(needle) ==
    \A i \in 1..Len(entries) :
        /\ entries[i].name # needle
        /\ entries[i].title # needle
        /\ to_string(i - 1) # needle
        /\ ends_with(needle, <<"*">>) =>
               LET partial == trim_end_matches_star(needle)
               IN  /\ ~starts_with(entries[i].name, partial)
                   /\ ~starts_with(entries[i].title, partial)

\* --boot or the one-shot entry read from the store names no entry.
UnknownDirective ==
    \/ cfg.options.boot # None /\ MatchesNone(cfg.options.boot[1])
    \/ /\ loc.bootloader_interface_oneshot_entry # None
       /\ MatchesNone(loc.bootloader_interface_oneshot_entry[1])

\* The statement without its conditions: whenever --boot or the one-shot
\* entry names no entry, no entry is selected and no action is executed.
C20_UnknownEntryAlwaysFatal ==
    (Arbitrated /\ UnknownDirective) =>
        /\ pc \notin {"selected", "execute", "done"}
        /\ selected = 0
        /\ ActionEvents = <<>>

\* C20: when the forced entry (the one-shot entry if the store held one,
\* --boot otherwise) names no entry and there is no force-menu directive,
\* run() ends in error at the lookup: the menu is not entered, no entry is
\* selected and no action is executed.
C20_UnknownForcedEntryIsFatal ==
    (/\ loc # <<>>
     /\ loc.force_boot_entry # None
     /\ ~loc.force_boot_menu
     /\ MatchesNone(loc.force_boot_entry[1])) =>
        /\ pc \in {"select", "error"}
        /\ selected = 0
        /\ store.LoaderEntrySelected = None
        /\ store.LoaderTimeMenuUSec = None
        /\ ActionEvents = <<>>

\* run() ended in error looking up --boot "zz" in the list of a, b, m-0, m-1.
C20_Witness ==
    /\ pc = "error"
    /\ Len(entries) = 4
    /\ cfg.options.boot = Some(N_zz)
    /\ loc.force_boot_entry = Some(N_zz)
    /\ ~loc.force_boot_menu
    /\ MatchesNone(N_zz)
    /\ store.LoaderEntries # None

\* What the step made in the ownership model, when it is the call op.
OwnCalled(op) == own' # own /\ own'.last.op = op

\* No variable but the one handle, and no live fork, refers to the context n.
SoleReference(nodes, n) ==
    /\ nodes[n].handles = 1
    /\ \A m \in 1..Len(nodes) : Live(nodes, m) => nodes[m].parent # n

\* No live context but n holds the root of n.
SoleRoot(nodes, n) ==
    \A m \in 1..Len(nodes) :
        (m # n /\ Live(nodes, m)) => nodes[m].root # nodes[n].root

\* C18: unload of a frozen context gives the context exactly when no other
\* handle of it and no live fork with it as parent exists, and None
\* otherwise; root_mut gives the root exactly when no other live context
\* shares it; and run() never reaches a "context safety violation": after the
\* early phase, the drivers and autoconfiguration its unload and its root
\* mutation both give Some.
C18_SoleOwnership ==
    /\ [][/\ OwnCalled("unload") =>
                (own'.last.result = "Some"
                    <=> SoleReference(own.nodes, own'.last.node))
          /\ OwnCalled("root_mut") =>
                (own'.last.result = "Some"
                    <=> SoleRoot(own.nodes, own'.last.node))]_vars
    /\ [](own # <<>> => own.at # "violation")

\* run() has gone through a phase item with an action and a driver, and its
\* root mutation got the root.
C18_Witness ==
    /\ own # <<>>
    /\ own.at = "refreeze"
    /\ own.last = OwnCall("root_mut", 1, "Some")
    /\ Len(own.nodes) >= 3

(***************************************************************************)
(* Claims about the forced menu, the menu and its timer.                   *)
(***************************************************************************)

\* run() has arbitrated and the store held no one-shot entry.
NoOneShot ==
    /\ loc # <<>>
    /\ Arbitrated
    /\ loc.bootloader_interface_oneshot_entry = None

Chosen == pc \in {"selected", "execute", "done"}

C22_ForcePolicyIsInfinite ==
    (/\ loc # <<>>
     /\ Arbitrated
     /\ loc.bootloader_interface_timeout = MenuForce
     /\ Chosen) =>
        /\ loc.menu_timeout # 0
        /\ loc.read # None
        /\ loc.read[1].returned.operation.kind # "Timeout"

\* The calls of read() that return an operation.
ReadInputs == RunEventResults \X RunCloseResults \X RunKeyPresses

\* What the turn of select_with_input does with the operation read() returned
\* (the timeout is not zero), by the test given.
MenuTurn(Test(_)) ==
    \A in \in ReadInputs :
        (/\ MenuRead(in[1], in[2], in[3])
         /\ loc.menu_timeout # 0
         /\ read(in[1], in[2], in[3]).status = "ok")
            => Test(read(in[1], in[2], in[3]).operation)

\* Exit and Timeout end the menu with the default entry.
ExitOrTimeoutIsDefault(operation) ==
    (operation.kind \in {"Exit", "Timeout"} /\ FirstDefault(entries) # 0) =>
        pc' = "selected" /\ selected' = FirstDefault(entries)

\* A number in range ends the menu with the entry at that index.
NumberInRangeIsEntry(operation) ==
    (operation.kind = "Number" /\ operation.index < Len(entries)) =>
        pc' = "selected" /\ selected' = operation.index + 1

\* A number out of range goes back to the wait, and the list is not printed.
NumberOutOfRangeWaits(operation) ==
    (operation.kind = "Number" /\ operation.index >= Len(entries)) =>
        pc' = "menu_wait" /\ selected' = selected

\* An unrecognised printable key goes back to the printing of the list.
ContinueDisplays(operation) ==
    operation.kind = "Continue" => pc' = "menu_display" /\ selected' = selected

\* The entry the menu returned is the default one or the one at the index of
\* the number read last.
MenuEntryIsDefaultOrPressed ==
    (loc # <<>> /\ Chosen /\ store.LoaderTimeMenuUSec # None) =>
        \/ selected = FirstDefault(entries)
        \/ /\ loc.read # None
           /\ loc.read[1].returned.operation = Number(selected - 1)

\* C23 without the turn on a number out of range.
MenuTransitionsOfTheCode ==
    /\ [][/\ MenuTurn(ExitOrTimeoutIsDefault)
          /\ MenuTurn(NumberInRangeIsEntry)
          /\ MenuTurn(ContinueDisplays)]_vars
    /\ []MenuEntryIsDefaultOrPressed

\* C23 (as claimed): the transitions of the menu: Exit and Timeout end it with
\* the default entry, a number in range with the entry at that index, a number
\* out of range goes back to the wait without printing the list, a printable
\* key that is no number goes back to the printing of the list, and the entry
\* returned is always the default one or the one at the index pressed.
C23_MenuTransitions ==
    /\ [][/\ MenuTurn(ExitOrTimeoutIsDefault)
          /\ MenuTurn(NumberInRangeIsEntry)
          /\ MenuTurn(NumberOutOfRangeWaits)
          /\ MenuTurn(ContinueDisplays)]_vars
    /\ []MenuEntryIsDefaultOrPressed

\* C24: every read() of the menu arms the timer with the whole timeout
\* select_with_input was called with, in units of 100 nanoseconds, however
\* many reads and printed lists went before: no budget runs down.
C24_FullTimeoutEveryWait ==
    (loc # <<>> /\ loc.read # None) =>
        loc.read[1].trigger = loc.menu_timeout * 10000000

\* A read was made after the list was printed a second time, and it ended
\* the menu.
C24_Witness ==
    /\ loc # <<>>
    /\ loc.displays = MaxDisplays
    /\ loc.read # None
    /\ loc.read[1].returned.operation.kind = "Timeout"
    /\ loc.read[1].trigger = loc.menu_timeout * 10000000
    /\ pc = "selected"

(***************************************************************************)
(* More claims about the context engine.                                   *)
(***************************************************************************)

\* The characters of a name.
NameChars == Lowercase \cup Uppercase \cup Digits

\* The name that starts at position i of the text: the longest run of
\* characters of a name.
RECURSIVE NameFrom(_, _)
NameFrom(text, i) ==
    IF i > Len(text) \/ text[i] \notin NameChars THEN <<>>
    ELSE <<text[i]>> \o NameFrom(text, i + 1)

\* The tokens "$name" of the text whose name is no key of the values and is
\* not the empty string with an empty key among them aside: a bare "$" is
\* unknown whatever the keys are.
UnknownTokens(values, text) ==
    {<<"$">> \o NameFrom(text, i + 1) :
        i \in {j \in 1..Len(text) :
                  /\ text[j] = "$"
                  /\ \/ NameFrom(text, j + 1) = <<>>
                     \/ NameFrom(text, j + 1) \notin DOMAIN values}}

Contains(s, sub) ==
    \E i \in 0..(Len(s) - Len(sub)) : SubSeq(s, i + 1, i + Len(sub)) = sub

\* A visible key that is not empty is a proper prefix of the name of the token.
KeyIsPrefix(values, token) ==
    \E key \in DOMAIN values : ProperPrefix(key, Tail(token))

\* The unknown tokens of which no visible key is a proper prefix are still in
\* the stamped text, a bare "$" among them also under an empty key.
UnknownTokensWithoutKeyPrefixKept ==
    last.op = "stamp" =>
        LET values == all_values(ctxs, last.ctx) IN
        \A token \in UnknownTokens(values, last.text) :
            ~KeyIsPrefix(values, token) => Contains(last.result, token)

\* A bare "$" was stamped under an empty key.
BareDollarUnderEmptyKey ==
    /\ last.op = "stamp" /\ last.text = <<"$">>
    /\ K_empty \in DOMAIN all_values(ctxs, last.ctx)
    /\ last.result = <<"$">>

\* C25 (as claimed): stamp leaves every unknown token in the text: each "$name"
\* whose name is no visible key is still in the stamped text, also when a
\* visible key is a proper prefix of the name, and a bare "$" is never
\* replaced, an empty key or not.
C25_UnknownTokensUntouched ==
    last.op = "stamp" =>
        \A token \in UnknownTokens(all_values(ctxs, last.ctx), last.text) :
            Contains(last.result, token)

\* One more pass over the values changes none of them.
FixedPoint(values) ==
    \A key \in DOMAIN values : stamp_values(values, values[key]).text = values[key]

\* finalize makes at most CONTEXT_FINALIZE_ITERATION_LIMIT passes, and returns
\* the error only after that many.
AtMostLimitPasses ==
    /\ fin.iterations <= CONTEXT_FINALIZE_ITERATION_LIMIT
    /\ (last.op = "finalize" /\ last.status = "ok") =>
           last.passes <= CONTEXT_FINALIZE_ITERATION_LIMIT
    /\ (last.op = "finalize" /\ last.status = "err") =>
           last.passes = CONTEXT_FINALIZE_ITERATION_LIMIT + 1

\* The context finalize returns has no parent and its values are a fixed point.
ReturnsFixedPoint ==
    (last.op = "finalize" /\ last.status = "ok") =>
        /\ ctxs[last.node].parent = 0
        /\ FixedPoint(ctxs[last.node].values)

\* The loop of finalize goes on to another pass.
AnotherPass == fin.active /\ fin'.active /\ fin'.iterations = fin.iterations + 1

\* The loop goes on only after a pass that changed a value.
GoesOnAfterChange == AnotherPass => fin'.current_values # fin.current_values

\* After the last pass allowed the loop does not go on: finalize returns the
\* error.
LimitIsAnError ==
    (fin.active /\ fin.iterations = CONTEXT_FINALIZE_ITERATION_LIMIT /\ fin' # fin) =>
        ~fin'.active /\ last'.op = "finalize" /\ last'.status = "err"

\* No step changes a context that exists: finalize adds the context it returns.
ContextsKeepValues == \A c \in 1..Len(ctxs) : ctxs'[c] = ctxs[c]

\* C26 without the test that every pass before another one changed a value.
FinalizeOfTheCode ==
    /\ []AtMostLimitPasses
    /\ []ReturnsFixedPoint
    /\ [][LimitIsAnError /\ ContextsKeepValues]_vars

\* finalize returned the error, after the last pass allowed.
FinalizeLimitReached ==
    last.op = "finalize" /\ last.status = "err"

\* C26 (as claimed): finalize ends after at most 100 passes; it returns a
\* context without parent whose values are a fixed point of stamping, or the
\* error exactly when 100 passes went by of which each changed a value; the
\* contexts that exist keep their values.
C26_FinalizeTerminates ==
    /\ []AtMostLimitPasses
    /\ []ReturnsFixedPoint
    /\ [][GoesOnAfterChange /\ LimitIsAnError /\ ContextsKeepValues]_vars

(***************************************************************************)
(* More claims about the run and the store.                                *)
(***************************************************************************)

InterfaceMatches ==
    {i \in 1..Len(entries) :
        is_match(entries[i], loc.bootloader_interface_default_entry[1])}

\* C28: a LoaderEntryDefault replaces the default of the configuration: the
\* entries that match it are the default ones and no other; when none matches,
\* the first entry is the only default one, whatever the configuration marked.
C28_InterfaceDefaultReplaces ==
    (/\ loc # <<>>
     /\ Arbitrated
     /\ loc.bootloader_interface_default_entry # None) =>
        \A i \in 1..Len(entries) :
            entries[i].default <=>
                IF InterfaceMatches # {} THEN i \in InterfaceMatches ELSE i = 1

\* LoaderEntryDefault "zz" matches no entry and the configuration marks b:
\* the first entry, a, is the default one and b is not.
C28_Witness ==
    /\ loc # <<>>
    /\ Arbitrated
    /\ loc.bootloader_interface_default_entry = Some(N_zz)
    /\ cfg.config.options.default_entry = Some(N_b)
    /\ Len(entries) >= 2
    /\ entries[1].default
    /\ entries[2].name = N_b /\ ~entries[2].default

\* The names a reader of LoaderEntries finds in the data: the runs that the
\* code unit 0 ends.
RECURSIVE SplitNames(_, _)
SplitNames(data, name) ==
    IF data = <<>> THEN <<>>
    ELSE IF Head(data) = NUL THEN <<name>> \o SplitNames(Tail(data), <<>>)
    ELSE SplitNames(Tail(data), Append(name, Head(data)))

PublishedNames == SplitNames(store.LoaderEntries[1], <<>>)

\* The names the store holds as LoaderEntries are those of the entries.
Published ==
    /\ store.LoaderEntries # None
    /\ PublishedNames = [i \in 1..Len(entries) |-> entries[i].name]

\* C30: the names of the entries are in the store before an entry is chosen
\* (by the lookup or by the menu), the name of the chosen entry is in the
\* store before its first action is executed and is one of the names
\* published, and a run that ends in an error before an entry is chosen never
\* writes a selected entry.
C30_PublicationOrder ==
    loc # <<>> =>
        /\ (selected # 0 \/ store.LoaderTimeMenuUSec # None) =>
               (entries # <<>> => Published)
        /\ ActionEvents # <<>> =>
               store.LoaderEntrySelected = Some(entries[selected].name)
        /\ store.LoaderEntrySelected # None =>
               /\ Published
               /\ selected # 0
               /\ \E i \in 1..Len(PublishedNames) :
                      PublishedNames[i] = store.LoaderEntrySelected[1]
        /\ pc = "error" => store.LoaderEntrySelected = None

\* An entry was chosen by the menu and its actions have been executed.
C30_Witness ==
    /\ loc # <<>>
    /\ pc = "done"
    /\ ActionEvents # <<>>
    /\ store.LoaderTimeMenuUSec # None
    /\ Published
    /\ store.LoaderEntrySelected = Some(entries[selected].name)

(***************************************************************************)
(* The menu under a fair timer.                                            *)
(***************************************************************************)

\* select_with_input is running.
InMenu == pc \in {"menu_display", "menu_wait"}

\* The turn of the menu in which read() returns MenuOperation::Timeout.
TimerTurn ==
    /\ pc = "menu_wait"
    /\ loc.menu_timeout # 0
    /\ loc'.read # None
    /\ loc'.read[1].returned = Returned(TimeoutOp)

\* The turn of the menu at a timeout of zero.
ZeroTurn == pc = "menu_wait" /\ loc.menu_timeout = 0 /\ pc' # "menu_wait"

\* The turn of the menu on a key that does not end it: a special key other
\* than escape, a printable key that is no number, a number out of range.
IdleKeyTurn ==
    /\ KeyArrives
    /\ loc'.read[1].returned.status = "ok"
    /\ LET operation == loc'.read[1].returned.operation
       IN  \/ operation.kind \in {"Nop", "Continue"}
           \/ operation.kind = "Number" /\ operation.index >= Len(entries)

\* C29: once no key arrives any more, a menu with a timeout that is not zero
\* returns; the turn in which the timer triggers returns the first default
\* entry when there is one; with a timeout of zero the menu returns the
\* default entry without printing the list and without a read; and a key that
\* does not end the menu leaves select_with_input running with nothing
\* selected, so that such keys arriving for ever keep it from returning.
C29_MenuReturnsDefault ==
    /\ (<>[][~KeyArrives]_vars) => (InMenu ~> ~InMenu)
    /\ [][(TimerTurn /\ FirstDefault(entries) # 0) =>
              /\ pc' = "selected"
              /\ selected' = FirstDefault(entries)]_vars
    /\ [][ZeroTurn =>
              /\ loc' = loc /\ loc.read = None /\ loc.displays = 0
              /\ selected' = FirstDefault(entries)
              /\ pc' = IF FirstDefault(entries) = 0 THEN "error" ELSE "selected"]_vars
    /\ [][IdleKeyTurn => InMenu' /\ selected' = selected]_vars

\* The menu returned the default entry because the timer triggered, after a
\* key that did not end it had the list printed again.
C29_Witness ==
    /\ loc # <<>>
    /\ loc.menu_timeout # 0
    /\ loc.displays > 1
    /\ loc.read # None
    /\ loc.read[1].returned = Returned(TimeoutOp)
    /\ pc = "selected"
    /\ selected = FirstDefault(entries)
    /\ selected # 0

\* Not so without the premise: the menu need not return.
MenuAlwaysReturns == InMenu ~> ~InMenu

=============================================================================
